---- MODULE Spec2Model ----
(***************************************************************************)
(* A model of the decentration-engine LLM gateway                          *)
(* (app/connections/openai_client.py), of the verbs that call it           *)
(* (app/verbs.py), of the database helper (app/helper_functions.py) and of *)
(* the retrieval adapters (app/inputs/gmail.py, app/inputs/twitter.py).    *)
(*                                                                         *)
(* Python values are modelled as follows.                                  *)
(*   - None is the string "None".                                          *)
(*   - A dict is the sequence of its <<key, value>> pairs in insertion     *)
(*     order (Python dicts keep insertion order).                          *)
(*   - An exception is the name of its class.                              *)
(*   - A backend response is a record [type, id]: type "dict" for a        *)
(*     completed response, "iter" for the iterator of a streaming call.    *)
(***************************************************************************)
EXTENDS Integers, Sequences, FiniteSets, TLC

(***************************************************************************)
(* Bounds of the model.                                                    *)
(***************************************************************************)
\* largest max_retries a caller passes to chat_completion in the retry runs
MaxRetries == 2
\* capacity of the cache in the runs (the program's value is 256)
CacheCap == 2
\* number of fragments of a streamed response
MaxFragments == 2
\* number of engines a run creates
MaxScopes == 3
\* largest number of UIDs a SEARCH gives, and largest max_results
MaxMail == 3
\* largest max_results of a query_tweets call
MaxTweets == 3

(***************************************************************************)
(* Program constants.                                                      *)
(***************************************************************************)
\* _retry: initial_delay = 1.0
InitialDelay == 1
\* _retry: backoff_factor = 2.0
BackoffFactor == 2
\* chat_completion: max_retries = 6 when the caller passes none
DefaultMaxRetries == 6

None == "None"
\* the hard-coded fallback of os.getenv("OPENAI_MODEL", "gpt-4o")
HardCodedModel == "gpt-4o"

\* the four names _retry looks up in openai.error
TransientNames == {"RateLimitError", "APIConnectionError", "APIError", "Timeout"}
\* exception classes of the SDK that are none of the four
PermanentNames == {"InvalidRequestError"}

Procs == {1, 2}

(***************************************************************************)
(* Inputs.                                                                 *)
(***************************************************************************)
MsgHi == << <<"role", "user">>, <<"content", "hi">> >>
MsgHiSwapped == << <<"content", "hi">>, <<"role", "user">> >>
MsgHello == << <<"role", "user">>, <<"content", "hello">> >>

\* **kwargs of chat_completion: none, and one option set
NoOptions == <<>>
Creative == << <<"temperature", "0.9">> >>

ResponseIds == {"r1", "r2"}
\* no response object; a response carries the payload it answers (model,
\* messages) and, for an iterator, how many fragments were taken from it (pos)
NoResp ==
    [type |-> "none", id |-> "none", pos |-> 0, model |-> "", messages |-> <<>>,
     options |-> <<>>]

VARIABLES
    envModel,      \* os.environ["OPENAI_MODEL"] now, None when unset
    DEFAULT_MODEL, \* the module global _DEFAULT_MODEL
    errorAttrs,    \* the names openai.error defines, among the four
    CACHE,         \* the module global _CACHE: pairs in insertion order
    call,          \* per thread: the frame of its chat_completion call
    prev,          \* the chat_completion call that returned just before
    gm,            \* the last direct _get_model call: argument and result
    clientReady,   \* verbs.py: openai_client was imported and has chat_completion
    verb,          \* the frame of the verb being run
    db,            \* helper_functions: the engine_scope being run
    imap,          \* gmail: the query_emails call being run
    twitter        \* twitter: the query_tweets call being run

vars ==
    <<envModel, DEFAULT_MODEL, errorAttrs, CACHE, call, prev, gm, clientReady, verb,
      db, imap, twitter>>

\* the state of the database helper and of the retrieval adapters
adapters == <<db, imap, twitter>>

\* what the process is given and what the imports leave behind
process == <<envModel, DEFAULT_MODEL, errorAttrs, clientReady>>

(***************************************************************************)
(* _hash_messages: json.dumps(messages, sort_keys=True) and SHA-256.       *)
(***************************************************************************)
\* the order of the keys as json.dumps(sort_keys=True) sorts them
KeyRank(k) == CASE k = "content" -> 1 [] k = "role" -> 2 [] OTHER -> 3

\* a dict with its pairs sorted by key
RECURSIVE SortPairs(_)
SortPairs(d) ==
    IF d = <<>> THEN <<>>
    ELSE LET least == CHOOSE i \in 1..Len(d) :
                          \A j \in 1..Len(d) : KeyRank(d[i][1]) <= KeyRank(d[j][1])
             rest == [j \in 1..(Len(d) - 1) |-> IF j < least THEN d[j] ELSE d[j + 1]]
         IN <<d[least]>> \o SortPairs(rest)

\* the text of the messages with the keys in the order they were inserted
hash_messages_Unsorted(messages) == messages

\* the canonical text; SHA-256 is taken to be collision-free, so the digest
\* is represented by the text it is computed from
hash_messages(messages) == [i \in 1..Len(messages) |-> SortPairs(messages[i])]

\* a key made of the digest alone
CacheKey_DigestOnly(resolved_model, messages) == <<"any", hash_messages(messages)>>

\* f"{resolved_model}:{_hash_messages(messages)}"; the digest has a fixed
\* length, so the pair of the two parts stands for the text
CacheKey(resolved_model, messages) == <<resolved_model, hash_messages(messages)>>
NoKey == <<"", <<>>>>

(***************************************************************************)
(* _get_model                                                              *)
(***************************************************************************)
\* Python truthiness of an optional string
Truthy(s) == s # None /\ s # ""

get_model(model) == IF Truthy(model) THEN model ELSE DEFAULT_MODEL

(***************************************************************************)
(* _retry                                                                  *)
(***************************************************************************)
\* the tuple of the except clause: getattr(openai.error, name, Exception)
ExceptTuple ==
    (TransientNames \cap errorAttrs)
        \cup (IF TransientNames \subseteq errorAttrs THEN {} ELSE {"Exception"})

\* whether the except clause catches an exception of class exc
Caught(exc) == exc \in ExceptTuple \/ "Exception" \in ExceptTuple

\* the budget tested for equality: a negative max_retries is never met
BudgetExhausted_Equal(attempt, max_retries) == attempt = max_retries + 1

\* the comparison one too early, and one too late
BudgetExhausted_Early(attempt, max_retries) == attempt >= max_retries
BudgetExhausted_Late(attempt, max_retries) == attempt > max_retries + 1

\* if attempt > max_retries: raise
BudgetExhausted(attempt, max_retries) == attempt > max_retries

\* a delay that grows by the factor instead of being multiplied by it
NextDelay_Additive(delay) == delay + BackoffFactor

\* delay *= backoff_factor
NextDelay(delay) == delay * BackoffFactor

\* the failure wrapped in another class instead of re-raised
Reraised_Wrapped(exc) == "RuntimeError"

\* the exception the bare raise statement raises
Reraised(exc) == exc

(***************************************************************************)
(* The cache of chat_completion                                            *)
(***************************************************************************)
\* the stream flag forgotten
CacheEnabled_IgnoresStream(cache, stream) == cache

\* the cache flag forgotten
CacheEnabled_IgnoresFlag(cache, stream) == ~stream

\* if cache and not stream
CacheEnabled(cache, stream) == cache /\ ~stream

CacheKeys(c) == {c[i].key : i \in 1..Len(c)}

\* cache_key in _CACHE
InCache(c, k) == k \in CacheKeys(c)

\* _CACHE[cache_key]
Lookup(c, k) == c[CHOOSE i \in 1..Len(c) : c[i].key = k].val

\* a test that evicts while one place is still free
CacheFull_Early(c) == Len(c) >= CacheCap - 1

\* a test that lets the dict grow one entry past the capacity
CacheFull_OffByOne(c) == Len(c) > CacheCap

\* len(_CACHE) >= _MAX_CACHE_SIZE
CacheFull(c) == Len(c) >= CacheCap

\* the last-inserted pair evicted instead
EvictOldest_Newest(c) == IF c = <<>> THEN c ELSE SubSeq(c, 1, Len(c) - 1)

\* _CACHE.pop(next(iter(_CACHE))): the first-inserted pair goes
EvictOldest(c) == IF c = <<>> THEN c ELSE Tail(c)

\* _CACHE[cache_key] = response: a present key keeps its place
CacheSet(c, k, v) ==
    IF InCache(c, k)
    THEN [i \in 1..Len(c) |-> IF c[i].key = k THEN [key |-> k, val |-> v] ELSE c[i]]
    ELSE Append(c, [key |-> k, val |-> v])

\* a hit that moves the entry to the end, as an LRU cache does
AfterHit_MoveToEnd(c, k) ==
    LET i == CHOOSE j \in 1..Len(c) : c[j].key = k
    IN SubSeq(c, 1, i - 1) \o SubSeq(c, i + 1, Len(c)) \o <<c[i]>>

\* return _CACHE[cache_key]: reading an entry leaves the dict as it is
AfterHit(c, k) == c

\* the eviction without the assignment that follows it
StoreResponse_Dropped(c, k, v) == IF CacheFull(c) THEN EvictOldest(c) ELSE c

\* lines 220-226
StoreResponse(c, k, v) == CacheSet(IF CacheFull(c) THEN EvictOldest(c) ELSE c, k, v)

(***************************************************************************)
(* The frame of one chat_completion call                                   *)
(***************************************************************************)
IdleFrame ==
    [pc |-> "idle", messages |-> <<>>, model |-> None, stream |-> FALSE,
     cache |-> FALSE, max_retries |-> 0, options |-> NoOptions,
     resolved_model |-> "", cache_key |-> NoKey,
     attempt |-> 0, delay |-> 0, exc |-> None, response |-> NoResp,
     \* what the caller gets: the value returned, or the exception raised
     result |-> NoResp, error |-> None,
     \* bookkeeping about the call: how often fn() ran, the classes it raised,
     \* the waits slept, the return statement taken ("cache": line 200,
     \* "backend": line 228), whether the entry hit was the head of a full
     \* cache, and the key popped by the eviction
     nInv |-> 0, raised |-> {}, slept |-> <<>>, via |-> "none",
     hitOldest |-> FALSE, evicted |-> NoKey,
     \* the exception the returned iterator raised to its consumer
     streamError |-> None,
     \* the key next(iter(_CACHE)) gave, until it is popped
     victim |-> NoKey,
     \* the records the call wrote with logging.log_text, in their order
     log |-> <<>>]

NoPrev ==
    [key |-> NoKey, result |-> NoResp, nInv |-> 0, attempt |-> 0, via |-> "none",
     hitOldest |-> FALSE]

Finished(p) == call[p].pc \in {"done", "failed"}

\* what a finished call leaves for the call that follows it
Summary(f) ==
    IF f.pc = "done" /\ CacheEnabled(f.cache, f.stream)
    THEN [key |-> CacheKey(f.resolved_model, f.messages), result |-> f.result,
          nInv |-> f.nInv, attempt |-> f.attempt, via |-> f.via,
          hitOldest |-> f.hitOldest]
    ELSE NoPrev

\* lines 119-120, 184-196: the frame when the arguments are bound and the
\* model is resolved
Entered(a) ==
    [IdleFrame EXCEPT !.pc = "cachecheck",
                      !.messages = a.messages,
                      !.model = a.model,
                      !.stream = a.stream,
                      !.cache = a.cache,
                      !.max_retries = a.max_retries,
                      !.options = a.options,
                      !.resolved_model = get_model(a.model),
                      !.attempt = 0,
                      !.delay = InitialDelay]

\* a caller calls chat_completion with the arguments a
Begin(p, a) ==
    /\ call[p].pc \in {"idle", "done", "failed"}
    /\ \A q \in Procs \ {p} : call[q].pc \in {"idle", "done", "failed"}
    /\ verb.pc # "llm"
    /\ call' = [call EXCEPT ![p] = Entered(a)]
    /\ prev' = IF Finished(p) THEN Summary(call[p]) ELSE prev
    /\ UNCHANGED <<adapters, process, CACHE, gm, verb>>

\* a key that tells calls with different options apart
cache_key_WithOptions(f) ==
    <<f.resolved_model, hash_messages(f.messages) \o <<f.options>> >>

\* line 198: the key is made of resolved_model and messages; kwargs is not
\* part of it
cache_key(f) == CacheKey(f.resolved_model, f.messages)

\* lines 197-200: the cache is consulted
CacheCheck(p) ==
    /\ call[p].pc = "cachecheck"
    /\ LET f == call[p]
           k == cache_key(f)
       IN IF CacheEnabled(f.cache, f.stream)
          THEN IF InCache(CACHE, k)
               THEN /\ call' = [call EXCEPT ![p].pc = "done",
                                            ![p].cache_key = k,
                                            ![p].result = Lookup(CACHE, k),
                                            ![p].via = "cache",
                                            ![p].hitOldest =
                                                CacheFull(CACHE) /\ CACHE[1].key = k]
                    /\ CACHE' = AfterHit(CACHE, k)
               ELSE /\ call' = [call EXCEPT ![p].pc = "dispatch", ![p].cache_key = k]
                    /\ CACHE' = CACHE
          ELSE /\ call' = [call EXCEPT ![p].pc = "dispatch"]
               /\ CACHE' = CACHE
    /\ UNCHANGED <<adapters, process, prev, gm, verb>>

\* lines 186-191: the payload sent to the backend, kwargs included
Payload(f) ==
    [model |-> f.resolved_model, messages |-> f.messages, stream |-> f.stream,
     options |-> f.options]

\* what the backend hands back for a payload: a mapping, or with stream = True
\* an iterator of fragments from which nothing has been taken yet
BackendValue(payload, id) ==
    [type |-> IF payload.stream THEN "iter" ELSE "dict", id |-> id, pos |-> 0,
     model |-> payload.model, messages |-> payload.messages,
     options |-> payload.options]

\* a response whose fragments were all taken
Dispatched_Drained(resp) ==
    IF resp.type = "iter" THEN [resp EXCEPT !.pos = MaxFragments] ELSE resp

\* lines 206-214: _dispatch hands back what create() returned; a mapping and an
\* iterator have neither model_dump nor dict and pass through as they are
Dispatched(resp) == resp

\* lines 122-123, 202-214: fn() returns
DispatchReturnsOf(p, ids) ==
    /\ call[p].pc = "dispatch"
    /\ \E id \in ids :
           call' = [call EXCEPT ![p].pc = "store",
                                ![p].nInv = @ + 1,
                                ![p].response =
                                    Dispatched(BackendValue(Payload(call[p]), id))]
    /\ UNCHANGED <<adapters, process, CACHE, prev, gm, verb>>

\* the backend answers with one of the responses of the gateway's tests
DispatchReturns(p) == DispatchReturnsOf(p, ResponseIds)

\* one record of logging.log_text: what it reports and its severity
LogRecord(event, severity) == [event |-> event, severity |-> severity]

\* lines 131-140: the record _retry writes for a failure it caught: an error
\* when it gives up, a warning ahead of the wait when it goes on
RetryLog(exhausted) ==
    IF exhausted THEN LogRecord("giveup", "ERROR") ELSE LogRecord("retry", "WARNING")

\* lines 122-140: fn() raises an exception of class e
Raise(p, e) ==
    LET f == call[p] IN
    IF Caught(e)
    THEN IF BudgetExhausted(f.attempt + 1, f.max_retries)
         THEN call' = [call EXCEPT ![p].pc = "failed",
                                   ![p].nInv = @ + 1,
                                   ![p].raised = @ \cup {e},
                                   ![p].exc = e,
                                   ![p].attempt = @ + 1,
                                   ![p].log = Append(@, RetryLog(TRUE)),
                                   ![p].error = Reraised(e)]
         ELSE call' = [call EXCEPT ![p].pc = "backoff",
                                   ![p].nInv = @ + 1,
                                   ![p].raised = @ \cup {e},
                                   ![p].exc = e,
                                   ![p].log = Append(@, RetryLog(FALSE)),
                                   ![p].attempt = @ + 1]
    ELSE call' = [call EXCEPT ![p].pc = "failed",
                              ![p].nInv = @ + 1,
                              ![p].raised = @ \cup {e},
                              ![p].error = e]

\* a gateway that makes room in the cache ahead of the dispatch, so that a
\* failed call has evicted an entry
DispatchRaises_EvictsFirst(p, kinds) ==
    /\ call[p].pc = "dispatch"
    /\ \E e \in kinds \cap (errorAttrs \cup PermanentNames) : Raise(p, e)
    /\ CACHE' = IF CacheEnabled(call[p].cache, call[p].stream) /\ CacheFull(CACHE)
                THEN EvictOldest(CACHE) ELSE CACHE
    /\ UNCHANGED <<adapters, process, prev, gm, verb>>

\* lines 122-140, 218: fn() raises; _retry re-raises or loops, and lines
\* 220-228 are not reached
DispatchRaises(p, kinds) ==
    /\ call[p].pc = "dispatch"
    /\ \E e \in kinds \cap (errorAttrs \cup PermanentNames) : Raise(p, e)
    /\ UNCHANGED <<adapters, process, CACHE, prev, gm, verb>>

\* lines 141-142: time.sleep(delay); delay *= backoff_factor
Backoff(p) ==
    /\ call[p].pc = "backoff"
    /\ call' = [call EXCEPT ![p].pc = "dispatch",
                            ![p].slept = Append(@, call[p].delay),
                            ![p].delay = NextDelay(@)]
    /\ UNCHANGED <<adapters, process, CACHE, prev, gm, verb>>

\* lines 218-228: the response is stored and returned
Store(p) ==
    /\ call[p].pc = "store"
    /\ LET f == call[p] IN
       /\ CACHE' = IF CacheEnabled(f.cache, f.stream)
                   THEN StoreResponse(CACHE, f.cache_key, f.response)
                   ELSE CACHE
       /\ call' = [call EXCEPT ![p].pc = "done",
                               ![p].result = f.response,
                               ![p].via = "backend",
                               ![p].evicted =
                                   IF CacheEnabled(f.cache, f.stream)
                                      /\ CacheFull(CACHE) /\ CACHE # <<>>
                                   THEN CACHE[1].key ELSE NoKey]
    /\ UNCHANGED <<adapters, process, prev, gm, verb>>

(***************************************************************************)
(* The environment and _get_model called on its own                        *)
(***************************************************************************)
\* monkeypatch.setenv("OPENAI_MODEL", v)
SetEnv(v) ==
    /\ envModel # v
    /\ envModel' = v
    /\ UNCHANGED <<adapters, DEFAULT_MODEL, errorAttrs, clientReady, CACHE, call, prev,
                   gm, verb>>

\* monkeypatch.delenv("OPENAI_MODEL", raising=False)
DelEnv ==
    /\ envModel # None
    /\ envModel' = None
    /\ UNCHANGED <<adapters, DEFAULT_MODEL, errorAttrs, clientReady, CACHE, call, prev,
                   gm, verb>>

\* _get_model(m) is called; gm keeps the argument, the result and the value
\* the environment variable had at the call
GetModelCall(m) ==
    /\ gm' = [arg |-> m, result |-> get_model(m), env |-> envModel, called |-> TRUE]
    /\ UNCHANGED <<adapters, process, CACHE, call, prev, verb>>

(***************************************************************************)
(* verbs.py.  A text is the sequence of the pieces it is formatted from.   *)
(***************************************************************************)
Missing == "Missing"

NotConfiguredText == <<"(LLM back-end not configured - summary unavailable)">>
LlmFailedText == <<"(LLM call failed - see logs for details)">>
NoTextFound == <<"No text found.">>

RECURSIVE Join(_, _)
\* sep.join(texts)
Join(texts, sep) ==
    IF texts = <<>> THEN <<>>
    ELSE IF Len(texts) = 1 THEN texts[1]
    ELSE texts[1] \o <<sep>> \o Join(Tail(texts), sep)

\* the empty string, whatever pieces it is written with
IsEmptyText(t) == \A i \in 1..Len(t) : t[i] = ""

\* a chunk made of the snippet alone
EmailChunk_SnippetOnly(mail) == <<IF mail.snippet = Missing THEN "" ELSE mail.snippet>>

\* lines 301-307: the chunk of one e-mail
EmailChunk(mail) ==
    IF mail.body # Missing /\ mail.body # None /\ mail.body # ""
    THEN <<mail.body>>
    ELSE <<"Subject: ",
           IF mail.subject = Missing THEN "(no subject)" ELSE mail.subject,
           "\nSnippet: ",
           IF mail.snippet = Missing THEN "" ELSE mail.snippet>>

\* lines 356-357: datetime.fromtimestamp(timestamp, timezone.utc).isoformat()
\* for the epoch seconds of the tweets below, written as numerals
IsoFormat(timestamp) ==
    CASE timestamp = "1700000000" -> "2023-11-14T22:13:20+00:00"
      [] timestamp = "0" -> "1970-01-01T00:00:00+00:00"

\* lines 354-363: the chunk of one tweet; `if timestamp` is false for a
\* missing key, for None and for the number 0
TweetChunk(tw) ==
    <<"@", IF tw.author = Missing THEN "unknown" ELSE tw.author, " - ",
      IF tw.timestamp = Missing \/ tw.timestamp = None \/ tw.timestamp = "0"
      THEN "(unknown time)" ELSE IsoFormat(tw.timestamp),
      ":\n", IF tw.text = Missing THEN "" ELSE tw.text>>

\* lines 73-100, 103-135: what the verb gets from the retrieval adapter
Retrieved(adapter) == IF adapter.outcome = "returns" THEN adapter.records ELSE <<>>

\* whether the adapter function is called at all (lines 84, 116)
AdapterCalled(adapter) == adapter.outcome # "absent"

\* lines 183-188
ConfigFiles ==
    << <<"objectives.yaml", "Objectives">>, <<"priorities.yaml", "Priorities">>,
       <<"the_future.yaml", "Outlook">>, <<"features_of_success.yaml", "Methodology">> >>

\* a loop that a file it cannot read brings to its end
RECURSIVE ConfigParts_AbortOnError(_, _)
ConfigParts_AbortOnError(docs, i) ==
    IF i > Len(ConfigFiles) \/ docs[i] = "unreadable" THEN <<>>
    ELSE (IF docs[i] = "ok"
          THEN << <<"### ", ConfigFiles[i][2], "\n", ConfigFiles[i][1]>> >>
          ELSE <<>>) \o ConfigParts_AbortOnError(docs, i + 1)

\* lines 189-203: the sections of the files that exist and can be read
RECURSIVE ConfigParts(_, _)
ConfigParts(docs, i) ==
    IF i > Len(ConfigFiles) THEN <<>>
    ELSE (IF docs[i] = "ok"
          THEN << <<"### ", ConfigFiles[i][2], "\n", ConfigFiles[i][1]>> >>
          ELSE <<>>) \o ConfigParts(docs, i + 1)

Preamble ==
    << <<"You are a personal executive assistant for the user.">>,
       <<"When summarising content, surface insights that align with the user.">> >>

Closing == <<"Provide the summary as a Markdown bullet list.">>

\* lines 213-224
SystemPrompt(docs) ==
    LET parts == ConfigParts(docs, 1)
        context == Join(parts, "\n\n")
    IN Join(Preamble
                \o (IF parts # <<>> /\ ~IsEmptyText(context) THEN <<context>> ELSE <<>>)
                \o <<Closing>>,
            "\n\n")

\* the joined chunks, empty or not
UserContent_NoPlaceholder(chunks) == Join(chunks, "\n\n---\n\n")

\* lines 226, 233: joined or "No text found."
UserContent(chunks) ==
    LET joined == Join(chunks, "\n\n---\n\n")
    IN IF IsEmptyText(joined) THEN NoTextFound ELSE joined

\* the two messages with the user's first
BuildMessages_UserFirst(chunks, docs) ==
    << << <<"role", "user">>, <<"content", UserContent(chunks)>> >>,
       << <<"role", "system">>, <<"content", SystemPrompt(docs)>> >> >>

\* lines 226-235
BuildMessages(chunks, docs) ==
    << << <<"role", "system">>, <<"content", SystemPrompt(docs)>> >>,
       << <<"role", "user">>, <<"content", UserContent(chunks)>> >> >>

\* the modules of the package app.connections
ConnectionModules == {"openai_client"}

\* lines 30-33: the name openai_client of verbs.py, None when its import failed
DefaultClient == IF clientReady THEN "openai_client" ELSE None

\* a resolution that gives up on a name that is no module
ResolveClient_NoFallback(llm_connection) ==
    IF llm_connection = None THEN DefaultClient
    ELSE IF llm_connection \in ConnectionModules THEN llm_connection
    ELSE None

\* lines 157-169: the client the call is routed through
ResolveClient(llm_connection) ==
    IF llm_connection = None THEN DefaultClient
    ELSE IF llm_connection \in ConnectionModules THEN llm_connection
    ELSE DefaultClient

\* line 171: client is not None and has chat_completion
ClientUsable(llm_connection) == ResolveClient(llm_connection) # None

\* the exception passed on to the caller of the verb
OnLlmFailure_Reraise(exc) == [pc |-> "failed", result |-> <<>>, error |-> exc]

\* lines 239-244: what the verb does with an exception of chat_completion
OnLlmFailure(exc) == [pc |-> "done", result |-> LlmFailedText, error |-> None]

\* the verb raises for want of a client
OnNoClient_Raise == [pc |-> "failed", result |-> <<>>, error |-> "BackendUnavailable"]

\* lines 171-177: what the verb does without a usable client
OnNoClient == [pc |-> "done", result |-> NotConfiguredText, error |-> None]

\* Python values of a response: a string, None, a list, a dict (its pairs in
\* insertion order) and an object of any other class
StrV(s) == [t |-> "str", s |-> s, items |-> <<>>, pairs |-> <<>>]
NoneV == [t |-> "none", s |-> "", items |-> <<>>, pairs |-> <<>>]
ObjV == [t |-> "object", s |-> "", items |-> <<>>, pairs |-> <<>>]
ListV(items) == [t |-> "list", s |-> "", items |-> items, pairs |-> <<>>]
DictV(pairs) == [t |-> "dict", s |-> "", items |-> <<>>, pairs |-> pairs]

\* the outcome of a subscription: the exception raised, or the value
Raises(e) == [exc |-> e, v |-> NoneV]
Yields(v) == [exc |-> None, v |-> v]

\* v[k] for a string key k
GetKey(v, k) ==
    IF v.t = "dict"
    THEN IF \E i \in 1..Len(v.pairs) : v.pairs[i][1] = k
         THEN Yields(v.pairs[CHOOSE i \in 1..Len(v.pairs) : v.pairs[i][1] = k][2])
         ELSE Raises("KeyError")
    ELSE Raises("TypeError")

\* v[0]; the strings of the responses below have one character, which is
\* then their element 0; the dicts have no key 0
GetIndex0(v) ==
    CASE v.t = "list" -> IF v.items # <<>> THEN Yields(v.items[1]) ELSE Raises("IndexError")
      [] v.t = "str" -> IF v.s # "" THEN Yields(v) ELSE Raises("IndexError")
      [] v.t = "dict" -> Raises("KeyError")
      [] OTHER -> Raises("TypeError")

\* line 254: response["choices"][0]["message"]["content"], left to right
ContentAt(body) ==
    LET choices == GetKey(body, "choices")
        first == IF choices.exc = None THEN GetIndex0(choices.v) ELSE choices
        message == IF first.exc = None THEN GetKey(first.v, "message") ELSE first
    IN IF message.exc = None THEN GetKey(message.v, "content") ELSE message

\* the responses a client wrapper may hand to the verb
Msg(content) == DictV(<< <<"role", StrV("a")>>, <<"content", content>> >>)
Choice(message) == DictV(<< <<"index", StrV("0")>>, <<"message", message>> >>)
Resp(choices) == DictV(<< <<"id", StrV("c")>>, <<"choices", choices>> >>)

BodyOf(id) ==
    CASE id = "r1" -> Resp(ListV(<<Choice(Msg(StrV("summary1")))>>))
      [] id = "r2" -> Resp(ListV(<<Choice(Msg(StrV("summary2"))), Choice(Msg(StrV("other")))>>))
      [] id = "plain" -> StrV("plain summary")
      [] id = "object" -> ObjV
      [] id = "no_choices" -> DictV(<< <<"id", StrV("c")>> >>)
      [] id = "empty_choices" -> Resp(ListV(<<>>))
      [] id = "dict_choices" -> Resp(DictV(<<>>))
      [] id = "no_message" -> Resp(ListV(<<DictV(<< <<"index", StrV("0")>> >>)>>))
      [] id = "no_content" -> Resp(ListV(<<Choice(DictV(<< <<"role", StrV("a")>> >>))>>))
      [] id = "null_choices" -> Resp(NoneV)
      [] id = "str_choices" -> Resp(StrV("x"))
      [] id = "null_choice" -> Resp(ListV(<<NoneV>>))
      [] id = "null_message" -> Resp(ListV(<<Choice(NoneV)>>))
      [] id = "str_message" -> Resp(ListV(<<Choice(StrV("x"))>>))
      [] id = "null_content" -> Resp(ListV(<<Choice(Msg(NoneV))>>))

VerbResponseIds ==
    {"r1", "r2", "plain", "object", "no_choices", "empty_choices", "dict_choices",
     "no_message", "no_content", "null_choices", "str_choices", "null_choice",
     "null_message", "str_message", "null_content"}

\* str(response): the rendering of a dict or of an object, never empty
StrOf(response) == <<"str(", response.id, ")">>

\* a value handed back as it is: the text of a string, else the value's type
AsReturned(v) == IF v.t = "str" THEN <<v.s>> ELSE <<"<", v.t, ">">>

\* every response is rendered with str()
NormalizeResponse_AlwaysStr(response) ==
    [pc |-> "done", result |-> StrOf(response), error |-> None]

\* lines 246-261: what the verb makes of the response of chat_completion
NormalizeResponse(response) ==
    LET body == BodyOf(response.id)
        content == ContentAt(body)
    IN IF body.t = "str"
       THEN [pc |-> "done", result |-> <<body.s>>, error |-> None]
       ELSE IF body.t # "dict"
       THEN [pc |-> "done", result |-> StrOf(response), error |-> None]
       ELSE IF content.exc = None
       THEN [pc |-> "done", result |-> AsReturned(content.v), error |-> None]
       ELSE IF content.exc \in {"KeyError", "IndexError"}
       THEN [pc |-> "done", result |-> StrOf(response), error |-> None]
       ELSE [pc |-> "failed", result |-> <<>>, error |-> content.exc]

\* lines 84-99, 116-135: what the retrieval helper logs
RetrievalLog(adapter) ==
    IF adapter.outcome = "absent" THEN <<LogRecord("adapter_absent", "WARNING")>>
    ELSE IF adapter.outcome = "raises" THEN <<LogRecord("adapter_failed", "ERROR")>>
    ELSE <<>>

\* the fallback reported with a warning
FallbackLog_Warning(llm_connection) ==
    IF llm_connection # None /\ llm_connection \notin ConnectionModules
    THEN <<LogRecord("fallback", "WARNING")>> ELSE <<>>

\* lines 163-168: the fallback to the default client is logged as an error
FallbackLog(llm_connection) ==
    IF llm_connection # None /\ llm_connection \notin ConnectionModules
    THEN <<LogRecord("fallback", "ERROR")>> ELSE <<>>

\* lines 172-176
NoClientLog == <<LogRecord("no_client", "ERROR")>>

\* lines 197-201: one warning for each file that is there and cannot be read
RECURSIVE ConfigLog(_, _)
ConfigLog(docs, i) ==
    IF i > Len(ConfigFiles) THEN <<>>
    ELSE (IF docs[i] = "unreadable" THEN <<LogRecord("config_unreadable", "WARNING")>>
          ELSE <<>>) \o ConfigLog(docs, i + 1)

\* lines 239-243
LlmFailedLog == <<LogRecord("llm_failed", "ERROR")>>

\* lines 255-258: the warning of the fallback to str()
NormalizeLog(response) ==
    LET body == BodyOf(response.id)
    IN IF body.t = "dict" /\ ContentAt(body).exc \in {"KeyError", "IndexError"}
       THEN <<LogRecord("schema", "WARNING")>> ELSE <<>>

IdleVerb ==
    [pc |-> "idle", name |-> "none", accounts |-> <<>>, llm_connection |-> None,
     \* the records the verb wrote with logging.log_text, in their order
     log |-> <<>>,
     client |-> None, adapter |-> "none",
     \* what the adapter handed over and which context documents were there
     records |-> <<>>, docs |-> <<>>,
     chunks |-> <<>>, result |-> <<>>, error |-> None,
     \* how often the adapter and chat_completion were called
     adapterCalls |-> 0, llmCalls |-> 0]

\* lines 138-238: _summarise_with_llm up to its call of chat_completion, which
\* takes its defaults: no model, no stream, no cache, max_retries = 6
SummariseWithLlm(v, chunks, docs) ==
    IF ClientUsable(v.llm_connection)
    THEN /\ verb' = [v EXCEPT !.pc = "llm", !.chunks = chunks, !.llmCalls = 1,
                              !.client = ResolveClient(v.llm_connection),
                              !.docs = docs,
                              !.log = @ \o FallbackLog(v.llm_connection)
                                        \o ConfigLog(docs, 1)]
         /\ call' = [call EXCEPT ![1] =
                        Entered([messages |-> BuildMessages(chunks, docs),
                                 model |-> None, stream |-> FALSE, cache |-> FALSE,
                                 max_retries |-> DefaultMaxRetries,
                                 options |-> NoOptions])]
    ELSE /\ verb' = [v EXCEPT !.pc = OnNoClient.pc, !.chunks = chunks,
                              !.result = OnNoClient.result,
                              !.error = OnNoClient.error,
                              !.log = @ \o FallbackLog(v.llm_connection)
                                        \o NoClientLog]
         /\ call' = [call EXCEPT ![1] = IdleFrame]

\* lines 269-310: summarize_email up to the call of chat_completion
SummarizeEmail(llm_connection, adapter, docs) ==
    /\ verb.pc \in {"idle", "done", "failed"}
    /\ adapter.kind = "gmail"
    /\ LET v == [IdleVerb EXCEPT !.name = "summarize_email",
                                 !.llm_connection = llm_connection,
                                 !.adapter = adapter.outcome,
                                 !.records = Retrieved(adapter),
                                 !.log = RetrievalLog(adapter),
                                 !.adapterCalls = IF AdapterCalled(adapter) THEN 1 ELSE 0]
           emails == Retrieved(adapter)
           chunks == [i \in 1..Len(emails) |-> EmailChunk(emails[i])]
       IN SummariseWithLlm(v, chunks, docs)
    /\ UNCHANGED <<adapters, process, CACHE, prev, gm>>

\* a check that lets every list of accounts pass
AccountsValid_Always(accounts) == TRUE

\* line 341: if not accounts: raise ValueError
AccountsValid(accounts) == accounts # <<>>

\* lines 313-366: summarize_tweets up to the call of chat_completion
SummarizeTweets(accounts, llm_connection, adapter, docs) ==
    /\ verb.pc \in {"idle", "done", "failed"}
    /\ adapter.kind = "twitter"
    /\ LET v == [IdleVerb EXCEPT !.name = "summarize_tweets",
                                 !.accounts = accounts,
                                 !.llm_connection = llm_connection]
       IN IF ~AccountsValid(accounts)
          THEN /\ verb' = [v EXCEPT !.pc = "failed", !.error = "ValueError"]
               /\ call' = [call EXCEPT ![1] = IdleFrame]
          ELSE LET tweets == Retrieved(adapter)
                   chunks == [i \in 1..Len(tweets) |-> TweetChunk(tweets[i])]
               IN SummariseWithLlm(
                      [v EXCEPT !.adapter = adapter.outcome,
                                !.records = Retrieved(adapter),
                                !.log = RetrievalLog(adapter),
                                !.adapterCalls = IF AdapterCalled(adapter) THEN 1 ELSE 0],
                      chunks, docs)
    /\ UNCHANGED <<adapters, process, CACHE, prev, gm>>

\* lines 237-261: chat_completion has returned or raised, the verb returns
VerbReturns ==
    /\ verb.pc = "llm"
    /\ Finished(1)
    /\ verb' = IF call[1].pc = "failed"
               THEN [verb EXCEPT !.pc = OnLlmFailure(call[1].error).pc,
                                 !.result = OnLlmFailure(call[1].error).result,
                                 !.error = OnLlmFailure(call[1].error).error,
                                 !.log = @ \o LlmFailedLog]
               ELSE [verb EXCEPT !.pc = NormalizeResponse(call[1].result).pc,
                                 !.result = NormalizeResponse(call[1].result).result,
                                 !.error = NormalizeResponse(call[1].result).error,
                                 !.log = @ \o NormalizeLog(call[1].result)]
    /\ UNCHANGED <<adapters, process, CACHE, call, prev, gm>>

(***************************************************************************)
(* chat_completion under threads: the steps between which another thread   *)
(* can run.  The dict operations themselves are atomic.                    *)
(***************************************************************************)
\* a second thread calls chat_completion while calls of others are under way
BeginAny(p, a) ==
    /\ call[p].pc \in {"idle", "done", "failed"}
    /\ verb.pc # "llm"
    /\ call' = [call EXCEPT ![p] = Entered(a)]
    /\ UNCHANGED <<adapters, process, CACHE, prev, gm, verb>>

\* line 199: cache_key in _CACHE
CacheProbe(p) ==
    /\ call[p].pc = "cachecheck"
    /\ LET f == call[p]
           k == cache_key(f)
       IN call' = IF CacheEnabled(f.cache, f.stream)
                  THEN [call EXCEPT ![p].cache_key = k,
                                    ![p].pc = IF InCache(CACHE, k) THEN "read"
                                              ELSE "dispatch"]
                  ELSE [call EXCEPT ![p].pc = "dispatch"]
    /\ UNCHANGED <<adapters, process, CACHE, prev, gm, verb>>

\* line 200: return _CACHE[cache_key]; KeyError when the key has gone
CacheRead(p) ==
    /\ call[p].pc = "read"
    /\ LET k == call[p].cache_key
       IN call' = IF InCache(CACHE, k)
                  THEN [call EXCEPT ![p].pc = "done",
                                    ![p].result = Lookup(CACHE, k),
                                    ![p].via = "cache"]
                  ELSE [call EXCEPT ![p].pc = "failed", ![p].error = "KeyError"]
    /\ UNCHANGED <<adapters, process, CACHE, prev, gm, verb>>

\* a call that waits while a call with its key is with the backend
Awaits_Coalescing(p) ==
    \E q \in Procs \ {p} :
        /\ call[q].pc \in {"dispatch", "backoff", "store", "pick", "pop", "insert"}
        /\ call[q].cache_key # NoKey
        /\ call[q].cache_key = call[p].cache_key

\* lines 197-218: between the miss and _retry(_dispatch) nothing is awaited;
\* there is no lock and no table of calls in flight
Awaits(p) == FALSE

\* line 218 under threads
DispatchAlone(p, ids) == ~Awaits(p) /\ DispatchReturnsOf(p, ids)

\* lines 220-221: if cache and not stream: if len(_CACHE) >= _MAX_CACHE_SIZE
StoreTest(p) ==
    /\ call[p].pc = "store"
    /\ LET f == call[p]
       IN call' = IF ~CacheEnabled(f.cache, f.stream)
                  THEN [call EXCEPT ![p].pc = "done", ![p].result = f.response,
                                    ![p].via = "backend"]
                  ELSE [call EXCEPT ![p].pc = IF CacheFull(CACHE) THEN "pick"
                                              ELSE "insert"]
    /\ UNCHANGED <<adapters, process, CACHE, prev, gm, verb>>

\* line 223: next(iter(_CACHE)); StopIteration is caught and passed over
StorePick(p) ==
    /\ call[p].pc = "pick"
    /\ call' = IF CACHE = <<>>
               THEN [call EXCEPT ![p].pc = "insert"]
               ELSE [call EXCEPT ![p].pc = "pop", ![p].victim = CACHE[1].key]
    /\ UNCHANGED <<adapters, process, CACHE, prev, gm, verb>>

\* del c[k]
CacheDel(c, k) == SelectSeq(c, LAMBDA e : e.key # k)

\* line 223: _CACHE.pop(key); KeyError when another thread popped the key
StorePop(p) ==
    /\ call[p].pc = "pop"
    /\ LET k == call[p].victim
       IN IF InCache(CACHE, k)
          THEN /\ CACHE' = CacheDel(CACHE, k)
               /\ call' = [call EXCEPT ![p].pc = "insert", ![p].evicted = k,
                                       ![p].victim = NoKey]
          ELSE /\ CACHE' = CACHE
               /\ call' = [call EXCEPT ![p].pc = "failed", ![p].error = "KeyError",
                                       ![p].victim = NoKey]
    /\ UNCHANGED <<adapters, process, prev, gm, verb>>

\* lines 226-228: _CACHE[cache_key] = response; return response
StoreInsert(p) ==
    /\ call[p].pc = "insert"
    /\ CACHE' = CacheSet(CACHE, call[p].cache_key, call[p].response)
    /\ call' = [call EXCEPT ![p].pc = "done", ![p].result = call[p].response,
                            ![p].via = "backend"]
    /\ UNCHANGED <<adapters, process, prev, gm, verb>>

\* the caller takes the next fragment from the iterator chat_completion
\* returned: the backend yields it, or fails in the middle of the stream.
\* chat_completion has returned by then (line 228) and runs no code; result
\* and response are the one iterator object
ConsumeFragment(p) ==
    /\ call[p].pc = "done"
    /\ call[p].result.type = "iter"
    /\ call[p].streamError = None
    /\ call[p].result.pos < MaxFragments
    /\ \/ call' = [call EXCEPT ![p].result.pos = @ + 1,
                               ![p].response.pos = @ + 1]
       \/ \E e \in errorAttrs : call' = [call EXCEPT ![p].streamError = e]
    /\ UNCHANGED <<adapters, process, CACHE, prev, gm, verb>>

(***************************************************************************)
(* helper_functions.py: engine_scope and run_query                         *)
(***************************************************************************)
\* what the body of the with statement may raise
BodyErrors == {"RuntimeError", "OperationalError"}

IdleDb ==
    [pc |-> "idle", op |-> "none", query |-> "", params |-> None,
     \* engines created and disposed in the run, and dispose() calls on the
     \* engine of this scope
     created |-> 0, disposed |-> 0, nDispose |-> 0,
     \* the exception on its way out of the body
     pending |-> None,
     result |-> "none", error |-> None,
     \* severities of the log entries of this call
     log |-> <<>>]

\* lines 103-116, 153-162: the engine is created and handed to the body;
\* op is run_query, or "with" for a with statement of a caller's own
EngineScopeEnter(op, query, params) ==
    /\ db.pc \in {"idle", "done", "failed"}
    /\ db.created < MaxScopes
    /\ db' = [IdleDb EXCEPT !.pc = "body", !.op = op, !.query = query,
                            !.params = IF params = None THEN "{}" ELSE params,
                            !.created = db.created + 1,
                            !.disposed = db.disposed,
                            !.log = IF op = "run_query" THEN <<"INFO", "DEBUG">>
                                    ELSE <<"DEBUG">>]
    /\ UNCHANGED <<imap, twitter, process, CACHE, call, prev, gm, verb>>

\* lines 163-170: the body returns (run_query: the records of the frame)
BodyReturns ==
    /\ db.pc = "body"
    /\ db' = [db EXCEPT !.pc = "exit",
                        !.result = IF db.op = "run_query" THEN "records" ELSE "none",
                        !.log = IF db.op = "run_query" THEN Append(@, "DEBUG") ELSE @]
    /\ UNCHANGED <<imap, twitter, process, CACHE, call, prev, gm, verb>>

\* lines 164-168: the body raises (run_query: read_sql raises, the failure is
\* logged and raised again)
BodyRaises(e) ==
    /\ db.pc = "body"
    /\ db' = [db EXCEPT !.pc = "exit", !.pending = e,
                        !.log = IF db.op = "run_query" THEN Append(@, "ERROR") ELSE @]
    /\ UNCHANGED <<imap, twitter, process, CACHE, call, prev, gm, verb>>

\* an exit that disposes only when the body returned
ExitDisposes_OnReturn(pending) == pending = None

\* lines 117-122: try: yield engine / finally: engine.dispose()
ExitDisposes(pending) == TRUE

\* lines 119-122: the context exits; what the body raised goes on to the caller
EngineScopeExit ==
    /\ db.pc = "exit"
    /\ db' = [db EXCEPT !.pc = IF db.pending = None THEN "done" ELSE "failed",
                        !.error = db.pending,
                        !.disposed = IF ExitDisposes(db.pending) THEN @ + 1 ELSE @,
                        !.nDispose = IF ExitDisposes(db.pending) THEN @ + 1 ELSE @,
                        !.log = IF ExitDisposes(db.pending) THEN Append(@, "DEBUG")
                                ELSE @]
    /\ UNCHANGED <<imap, twitter, process, CACHE, call, prev, gm, verb>>

(***************************************************************************)
(* inputs/gmail.py: query_emails over IMAP                                 *)
(***************************************************************************)
IdleImap ==
    [pc |-> "idle", aware |-> TRUE, max_results |-> 0,
     \* calls of _get_imap_client, and the commands sent to the server
     clientCalls |-> 0, commands |-> <<>>,
     \* status and uid_list of the SEARCH, UIDs visited by the loop
     status |-> "none", uids |-> <<>>, idx |-> 0,
     \* the UIDs of the FETCH commands in their order, and how many failed
     fetches |-> <<>>, failed |-> 0,
     \* the list being built (its ids), what is returned, what is raised
     messages |-> <<>>, result |-> <<>>, error |-> None,
     \* what _get_imap_client gave, and whether client.logout() raised
     client |-> "none", logoutRaised |-> FALSE]

\* a check that lets a naive datetime pass
SinceValid_Always(aware) == TRUE

\* line 363: since.tzinfo is None raises ValueError
SinceValid(aware) == aware

\* lines 363-370: the argument check and _get_imap_client; client is "ok" or
\* "none" (credentials missing or login failed)
QueryEmails(aware, max_results, client) ==
    /\ imap.pc \in {"idle", "done", "failed"}
    /\ imap' =
           IF ~SinceValid(aware)
           THEN [IdleImap EXCEPT !.pc = "failed", !.aware = aware,
                                 !.max_results = max_results, !.error = "ValueError"]
           ELSE IF client = "none"
           THEN [IdleImap EXCEPT !.pc = "done", !.aware = aware,
                                 !.max_results = max_results, !.clientCalls = 1]
           ELSE [IdleImap EXCEPT !.pc = "search", !.aware = aware,
                                 !.max_results = max_results, !.clientCalls = 1,
                                 !.client = "ok"]
    /\ UNCHANGED <<db, twitter, process, CACHE, call, prev, gm, verb>>

\* a logout placed behind the try block: it is passed over when an exception
\* is on its way out
Logout_OnReturn(commands, leaving) ==
    IF leaving = "return" THEN Append(commands, "LOGOUT") ELSE commands

\* lines 443-447: the finally clause sends LOGOUT whether the try block is
\* left by a return or by an exception
Logout(commands, leaving) == Append(commands, "LOGOUT")

\* lines 392-400: SELECT and SEARCH; m UIDs match, numbered upwards
SearchOk(m) ==
    /\ imap.pc = "search"
    /\ imap' = [imap EXCEPT !.pc = "loop", !.status = "OK",
                            !.commands = <<"SELECT", "SEARCH">>,
                            !.uids = [i \in 1..m |-> i]]
    /\ UNCHANGED <<db, twitter, process, CACHE, call, prev, gm, verb>>

\* lines 394-396, 443-447: the SEARCH is answered with another status:
\* logged, [] after the logout; an exception of the logout is passed over
SearchRefused ==
    /\ imap.pc = "search"
    /\ \E lo \in BOOLEAN :
           imap' = [imap EXCEPT !.pc = "done", !.status = "NO",
                                !.commands = Logout(<<"SELECT", "SEARCH">>, "return"),
                                !.logoutRaised = lo]
    /\ UNCHANGED <<db, twitter, process, CACHE, call, prev, gm, verb>>

\* lines 392-393, 443-447: SELECT or SEARCH raises: no except clause, the
\* finally logs out
SearchRaises ==
    /\ imap.pc = "search"
    /\ \E lo \in BOOLEAN :
           imap' = [imap EXCEPT !.pc = "failed", !.error = "IMAP4.error",
                                !.commands = Logout(<<"SELECT">>, "raise"),
                                !.logoutRaised = lo]
    /\ UNCHANGED <<db, twitter, process, CACHE, call, prev, gm, verb>>

\* a test that stops the loop one message late
CapReached_Late(messages, max_results) == Len(messages) > max_results

\* line 405: len(messages) >= max_results
CapReached(messages, max_results) == Len(messages) >= max_results

\* lines 403-442: one turn of the loop over reversed(uid_list); the FETCH
\* gives a message, or a status or data that makes the loop go on
FetchNext(ok) ==
    /\ imap.pc = "loop"
    /\ imap.idx < Len(imap.uids)
    /\ ~CapReached(imap.messages, imap.max_results)
    /\ LET uid == imap.uids[Len(imap.uids) - imap.idx]
       IN imap' = [imap EXCEPT !.idx = @ + 1,
                               !.commands = Append(@, "FETCH"),
                               !.fetches = Append(@, uid),
                               !.messages = IF ok THEN Append(@, uid) ELSE @,
                               !.failed = IF ok THEN @ ELSE @ + 1]
    /\ UNCHANGED <<db, twitter, process, CACHE, call, prev, gm, verb>>

\* lines 408, 412, 443-447: the FETCH raises (the connection is lost), or
\* msg_data[0][1] does on a reply that is no list of pairs; no except clause
\* catches either, the finally logs out
FetchRaises(e) ==
    /\ imap.pc = "loop"
    /\ imap.idx < Len(imap.uids)
    /\ ~CapReached(imap.messages, imap.max_results)
    /\ LET uid == imap.uids[Len(imap.uids) - imap.idx]
       IN \E lo \in BOOLEAN :
              imap' = [imap EXCEPT !.pc = "failed", !.error = e,
                                   !.idx = @ + 1,
                                   !.commands = Logout(Append(@, "FETCH"), "raise"),
                                   !.fetches = Append(@, uid),
                                   !.failed = @ + 1,
                                   !.logoutRaised = lo]
    /\ UNCHANGED <<db, twitter, process, CACHE, call, prev, gm, verb>>

\* lines 405-406, 443-449: the loop ends, logout, return messages
LoopEnds ==
    /\ imap.pc = "loop"
    /\ imap.idx = Len(imap.uids) \/ CapReached(imap.messages, imap.max_results)
    /\ \E lo \in BOOLEAN :
           imap' = [imap EXCEPT !.pc = "done", !.result = imap.messages,
                                !.commands = Logout(@, "return"),
                                !.logoutRaised = lo]
    /\ UNCHANGED <<db, twitter, process, CACHE, call, prev, gm, verb>>

(***************************************************************************)
(* inputs/twitter.py: query_tweets.  A creation time is written as the     *)
(* numeral of its epoch seconds, as in the tweets of the verbs.            *)
(***************************************************************************)
\* the number a numeral stands for
Seconds(timestamp) ==
    CASE timestamp = "1700000000" -> 1700000000
      [] timestamp = "1700000060" -> 1700000060

IdleTwitter ==
    [pc |-> "idle", aware |-> TRUE, max_results |-> 0,
     \* what the API holds for each account, and the accounts visited
     feeds |-> <<>>, idx |-> 0,
     \* the list being built, what is returned, what is raised
     tweets |-> <<>>, result |-> <<>>, error |-> None]

\* lines 183-188: the argument check and _get_client; client is "ok" or
\* "none" (tweepy or the token missing); feeds is what the API will answer
QueryTweets(aware, max_results, client, feeds) ==
    /\ twitter.pc \in {"idle", "done", "failed"}
    /\ twitter' =
           IF ~aware
           THEN [IdleTwitter EXCEPT !.pc = "failed", !.aware = aware,
                                    !.max_results = max_results,
                                    !.error = "ValueError"]
           ELSE IF client = "none"
           THEN [IdleTwitter EXCEPT !.pc = "done", !.max_results = max_results]
           ELSE [IdleTwitter EXCEPT !.pc = "loop", !.max_results = max_results,
                                    !.feeds = feeds]
    /\ UNCHANGED <<db, imap, process, CACHE, call, prev, gm, verb>>

\* lines 217-224: the dict made of one post; created_at is None when absent
TweetDict(post, username) ==
    [id |-> post.id, author |-> username, timestamp |-> post.created_at]

\* the first n elements of a sequence
Take(seq, n) == SubSeq(seq, 1, IF n < Len(seq) THEN n ELSE Len(seq))

\* lines 191-229: one turn of the loop over the accounts.  An account whose
\* id cannot be found, or whose pagination cannot be started, is passed
\* over; else its posts are appended until the cap is reached
VisitAccount ==
    /\ twitter.pc = "loop"
    /\ twitter.idx < Len(twitter.feeds)
    /\ Len(twitter.tweets) < twitter.max_results
    /\ LET feed == twitter.feeds[twitter.idx + 1]
           room == twitter.max_results - Len(twitter.tweets)
           taken == Take(feed.posts, room)
       IN twitter' =
              [twitter EXCEPT
                  !.idx = @ + 1,
                  !.tweets =
                      IF feed.status = "ok"
                      THEN @ \o [i \in 1..Len(taken) |-> TweetDict(taken[i], feed.account)]
                      ELSE @]
    /\ UNCHANGED <<db, imap, process, CACHE, call, prev, gm, verb>>

\* t.get("timestamp", 0): the key is always there, so the default is not used
SortKey(t) == t.timestamp

\* whether list.sort can compare the keys: it compares every element of a
\* list of two or more with another, and None is not ordered against a float
\* or another None
Comparable(tweets) ==
    Len(tweets) < 2 \/ \A i \in 1..Len(tweets) : SortKey(tweets[i]) # None

\* a dict put into a list that is sorted by descending key, behind the dicts
\* of the same key
RECURSIVE InsertDesc(_, _)
InsertDesc(sorted, t) ==
    IF sorted = <<>> THEN <<t>>
    ELSE IF Seconds(SortKey(sorted[1])) >= Seconds(SortKey(t))
    THEN <<sorted[1]>> \o InsertDesc(Tail(sorted), t)
    ELSE <<t>> \o sorted

\* tweets.sort(key=..., reverse=True): a stable sort, largest key first
RECURSIVE SortDesc(_)
SortDesc(tweets) ==
    IF Len(tweets) < 2 THEN tweets
    ELSE InsertDesc(SortDesc(SubSeq(tweets, 1, Len(tweets) - 1)), tweets[Len(tweets)])

\* lines 192-193, 230-231: the loop is over; the list is sorted and returned,
\* or the sort raises TypeError
SortAndReturn ==
    /\ twitter.pc = "loop"
    /\ twitter.idx = Len(twitter.feeds) \/ Len(twitter.tweets) >= twitter.max_results
    /\ twitter' =
           IF Comparable(twitter.tweets)
           THEN [twitter EXCEPT !.pc = "done", !.result = SortDesc(twitter.tweets)]
           ELSE [twitter EXCEPT !.pc = "failed", !.error = "TypeError"]
    /\ UNCHANGED <<db, imap, process, CACHE, call, prev, gm, verb>>

(***************************************************************************)
(* Specifications                                                          *)
(***************************************************************************)
\* the module is imported: _DEFAULT_MODEL = os.getenv("OPENAI_MODEL", "gpt-4o")
ImportDefault(env) == IF env = None THEN HardCodedModel ELSE env

InitWith(envs, attrSets, ready) ==
    /\ envModel \in envs
    /\ DEFAULT_MODEL = ImportDefault(envModel)
    /\ errorAttrs \in attrSets
    /\ clientReady \in ready
    /\ CACHE = <<>>
    /\ call = [p \in Procs |-> IdleFrame]
    /\ prev = NoPrev
    /\ gm = [arg |-> None, result |-> None, env |-> None, called |-> FALSE]
    /\ verb = IdleVerb
    /\ db = IdleDb
    /\ imap = IdleImap
    /\ twitter = IdleTwitter

\* calls that exercise the retry loop: one thread, no cache
RetryArgs ==
    [messages : {<<MsgHi>>}, model : {None}, stream : BOOLEAN, cache : {FALSE},
     max_retries : (-1)..MaxRetries, options : {NoOptions}]

InitRetry == InitWith({None}, SUBSET TransientNames, {TRUE})

NextRetry ==
    \/ \E a \in RetryArgs : Begin(1, a)
    \/ CacheCheck(1)
    \/ DispatchReturns(1)
    \/ DispatchRaises(1, TransientNames \cup PermanentNames)
    \/ Backoff(1)
    \/ Store(1)
    \/ ConsumeFragment(1)

SpecRetry == InitRetry /\ [][NextRetry]_vars

\* the steps chat_completion takes by itself once it is called: the thread
\* runs on, the backend invocation returns or raises, time.sleep returns
CallSteps(p) ==
    \/ CacheCheck(p)
    \/ DispatchReturns(p)
    \/ DispatchRaises(p, TransientNames \cup PermanentNames)
    \/ Backoff(p)
    \/ Store(p)

\* the retry runs with a thread that is scheduled and a backend whose
\* invocations terminate
SpecRetryLive == InitRetry /\ [][NextRetry]_vars /\ WF_vars(CallSteps(1))

\* calls that exercise the cache: one thread, the SDK defines the four classes
CacheArgs ==
    [messages : {<<MsgHi>>, <<MsgHello>>}, model : {None, "foo"}, stream : BOOLEAN,
     cache : BOOLEAN, max_retries : {1}, options : {NoOptions}]

Init == InitWith({None}, {TransientNames}, {TRUE})

Next ==
    \/ \E a \in CacheArgs : Begin(1, a)
    \/ CacheCheck(1)
    \/ DispatchReturns(1)
    \/ DispatchRaises(1, {"RateLimitError", "InvalidRequestError"})
    \/ Backoff(1)
    \/ Store(1)

Spec == Init /\ [][Next]_vars

\* calls that exercise the stores and the evictions: one thread, no stream,
\* with and without the cache, a backend that answers or fails
StoreArgs ==
    [messages : {<<MsgHi>>, <<MsgHello>>}, model : {None, "foo"}, stream : {FALSE},
     cache : BOOLEAN, max_retries : {1}, options : {NoOptions}]

InitStore == InitWith({None}, {TransientNames}, {TRUE})

NextStore ==
    \/ \E a \in StoreArgs : Begin(1, a)
    \/ CacheCheck(1)
    \/ DispatchReturnsOf(1, {"r1"})
    \/ DispatchRaises(1, {"RateLimitError", "InvalidRequestError"})
    \/ Backoff(1)
    \/ Store(1)

SpecStore == InitStore /\ [][NextStore]_vars

\* the cache key: calls that differ in the order of the keys of a message, in
\* the content and in the model, under two values of OPENAI_MODEL at import
KeyArgs ==
    [messages : {<<MsgHi>>, <<MsgHiSwapped>>, <<MsgHello>>}, model : {None, "foo"},
     stream : {FALSE}, cache : {TRUE}, max_retries : {0}, options : {NoOptions}]

InitKey == InitWith({None, "foo"}, {TransientNames}, {TRUE})

NextKey ==
    \/ \E a \in KeyArgs : Begin(1, a)
    \/ CacheCheck(1)
    \/ DispatchReturns(1)
    \/ Store(1)

SpecKey == InitKey /\ [][NextKey]_vars

\* the cache key and the options: cached calls that differ in their kwargs
OptionArgs ==
    [messages : {<<MsgHi>>, <<MsgHello>>}, model : {None, "foo"}, stream : {FALSE},
     cache : {TRUE}, max_retries : {0}, options : {NoOptions, Creative}]

InitOptions == InitWith({None}, {TransientNames}, {TRUE})

NextOptions ==
    \/ \E a \in OptionArgs : Begin(1, a)
    \/ CacheCheck(1)
    \/ DispatchReturns(1)
    \/ Store(1)

SpecOptions == InitOptions /\ [][NextOptions]_vars

\* two threads call chat_completion with the cache on
ConcArgs ==
    [messages : {<<MsgHi>>, <<MsgHello>>}, model : {None, "foo"}, stream : {FALSE},
     cache : {TRUE}, max_retries : {0}, options : {NoOptions}]

ConcResponseIds == {"r1"}

InitConc == InitWith({None}, {TransientNames}, {TRUE})

NextConc ==
    \E p \in Procs :
        \/ \E a \in ConcArgs : BeginAny(p, a)
        \/ CacheProbe(p)
        \/ CacheRead(p)
        \/ DispatchAlone(p, ConcResponseIds)
        \/ StoreTest(p)
        \/ StorePick(p)
        \/ StorePop(p)
        \/ StoreInsert(p)

SpecConc == InitConc /\ [][NextConc]_vars

\* the Gmail adapter
InitMail == InitWith({None}, {TransientNames}, {TRUE})

NextMail ==
    \/ \E aware \in BOOLEAN, n \in 0..MaxMail, client \in {"ok", "none"} :
           QueryEmails(aware, n, client)
    \/ \E m \in 0..MaxMail : SearchOk(m)
    \/ SearchRefused
    \/ SearchRaises
    \/ \E ok \in BOOLEAN : FetchNext(ok)
    \/ \E e \in {"IMAP4.abort", "TypeError"} : FetchRaises(e)
    \/ LoopEnds

SpecMail == InitMail /\ [][NextMail]_vars

\* the Twitter adapter: what the API answers for one account
PostLists ==
    {<<>>, <<None>>, <<"1700000060">>, <<"1700000000", "1700000060">>,
     <<"1700000000", None>>}

FeedsOf(account, firstId) ==
    {[account |-> account, status |-> st, posts |-> <<>>] : st \in {"unknown", "refused"}}
        \cup {[account |-> account, status |-> "ok",
               posts |-> [i \in 1..Len(ts) |-> [id |-> firstId + i, created_at |-> ts[i]]]] :
                  ts \in PostLists}

\* the accounts asked for: none, one or two
AllFeeds ==
    {<<>>} \cup {<<a>> : a \in FeedsOf("alice", 0)}
        \cup {<<a, b>> : a \in FeedsOf("alice", 0), b \in FeedsOf("bob", 2)}

InitTwitter == InitWith({None}, {TransientNames}, {TRUE})

NextTwitter ==
    \/ \E aware \in BOOLEAN, n \in 0..MaxTweets, client \in {"ok", "none"},
          feeds \in AllFeeds :
           QueryTweets(aware, n, client, feeds)
    \/ VisitAccount
    \/ SortAndReturn

SpecTwitter == InitTwitter /\ [][NextTwitter]_vars

\* the database helper
InitDb == InitWith({None}, {TransientNames}, {TRUE})

NextDb ==
    \/ \E op \in {"with", "run_query"}, q \in {"SELECT 1", "SELECT 2"},
          ps \in {None, "{id}"} :
           EngineScopeEnter(op, q, ps)
    \/ BodyReturns
    \/ \E e \in BodyErrors : BodyRaises(e)
    \/ EngineScopeExit

SpecDb == InitDb /\ [][NextDb]_vars

\* the environment changes under a running process
EnvArgs ==
    [messages : {<<MsgHi>>, <<MsgHiSwapped>>}, model : {None}, stream : {FALSE},
     cache : {TRUE}, max_retries : {0}, options : {NoOptions}]

InitEnv == InitWith({None, "bar"}, {TransientNames}, {TRUE})

NextEnv ==
    \/ \E v \in {"bar", "baz"} : SetEnv(v)
    \/ DelEnv
    \/ \E m \in {None, "", "foo"} : GetModelCall(m)
    \/ \E a \in EnvArgs : Begin(1, a)
    \/ CacheCheck(1)
    \/ DispatchReturns(1)
    \/ DispatchRaises(1, {"RateLimitError"})
    \/ Store(1)

SpecEnv == InitEnv /\ [][NextEnv]_vars

\* the verbs
MailFull == [body |-> "body1", subject |-> "subj1", snippet |-> "snip1"]
MailBare == [body |-> Missing, subject |-> Missing, snippet |-> "snip2"]
MailEmptyBody == [body |-> "", subject |-> "subj3", snippet |-> Missing]
TweetTimed == [author |-> "alice", timestamp |-> "1700000000", text |-> "tweet1"]
TweetUntimed == [author |-> "bob", timestamp |-> None, text |-> "tweet2"]
\* a post dated 1970-01-01T00:00:00Z
TweetEpoch == [author |-> "carol", timestamp |-> "0", text |-> "tweet3"]

Adapters ==
    [kind : {"gmail"}, outcome : {"absent", "raises"}, records : {<<>>}]
        \cup [kind : {"gmail"}, outcome : {"returns"},
              records : {<<>>, <<MailFull, MailEmptyBody, MailBare>>}]
        \cup [kind : {"twitter"}, outcome : {"absent", "raises"}, records : {<<>>}]
        \cup [kind : {"twitter"}, outcome : {"returns"},
              records : {<<>>, <<TweetTimed, TweetUntimed>>, <<TweetEpoch, TweetTimed>>}]

DocChoices ==
    { <<"missing", "missing", "missing", "missing">>,
      <<"ok", "missing", "unreadable", "ok">> }

\* the system prompt: every state of the four context documents
AllDocs == [1..4 -> {"ok", "missing", "unreadable"}]

InitPrompt == InitWith({None}, {TransientNames}, {TRUE})

NextPrompt ==
    \/ \E docs \in AllDocs :
           SummarizeEmail(None, [kind |-> "gmail", outcome |-> "returns",
                                 records |-> <<MailFull>>], docs)
    \/ VerbReturns
    \/ CacheCheck(1)
    \/ DispatchReturnsOf(1, {"plain"})
    \/ Store(1)

SpecPrompt == InitPrompt /\ [][NextPrompt]_vars

InitVerbs == InitWith({None}, {TransientNames}, BOOLEAN)

NextVerbs ==
    \/ \E c \in {None, "nosuch"}, ad \in Adapters, docs \in DocChoices :
           SummarizeEmail(c, ad, docs)
    \/ \E acc \in {<<>>, <<"alice", "bob">>}, c \in {None, "nosuch"}, ad \in Adapters,
          docs \in DocChoices :
           SummarizeTweets(acc, c, ad, docs)
    \/ VerbReturns
    \/ CacheCheck(1)
    \/ DispatchReturnsOf(1, VerbResponseIds)
    \/ DispatchRaises(1, {"RateLimitError", "InvalidRequestError"})
    \/ Backoff(1)
    \/ Store(1)

SpecVerbs == InitVerbs /\ [][NextVerbs]_vars

(***************************************************************************)
(* Properties                                                              *)
(***************************************************************************)
Max(a, b) == IF a >= b THEN a ELSE b

\* every fn() of the call raised and was caught: the retry budget ran out
Exhausted(f) == f.pc = "failed" /\ f.nInv = f.attempt

\* the key the call has in the cache, computed or not
KeyOfCall(f) == CacheKey(f.resolved_model, f.messages)

\* C1: with max_retries >= 0, a call whose backend has raised k <= max_retries
\* transient failures is not failed; and when the backend then returns, the
\* call returns that value after exactly k + 1 invocations.
C1_RetryThenSuccess ==
    \A p \in Procs :
        LET f == call[p] IN
        /\ (f.max_retries >= 0 /\ f.raised \subseteq TransientNames
               /\ f.attempt <= f.max_retries)
              => f.pc # "failed"
        /\ f.pc \in {"store", "done"} => f.nInv = f.attempt + 1
        /\ f.pc = "done" => f.result = f.response /\ f.error = None

\* C1: a call that returned after as many transient failures as max_retries
C1_Witness ==
    \E p \in Procs :
        /\ call[p].pc = "done"
        /\ call[p].max_retries >= 1
        /\ call[p].attempt = call[p].max_retries
        /\ call[p].raised # {} /\ call[p].raised \subseteq TransientNames
        /\ call[p].nInv = call[p].max_retries + 1

\* C2 as stated: a call whose backend raised only transient failures has
\* failed after exactly max_retries + 1 invocations.
C2_ExactlyMaxRetriesPlusOne ==
    \A p \in Procs :
        (call[p].pc = "failed" /\ call[p].raised \subseteq TransientNames)
            => call[p].nInv = call[p].max_retries + 1

\* C2 amended: a call whose backend raised only transient failures never
\* makes more than max(max_retries, 0) + 1 invocations, and has made exactly
\* that many when it has failed.
C2_ExactlyBudgetInvocations ==
    \A p \in Procs :
        LET f == call[p] IN
        f.raised \subseteq TransientNames =>
            /\ f.nInv <= Max(f.max_retries, 0) + 1
            /\ f.pc = "failed" => f.nInv = Max(f.max_retries, 0) + 1

\* C2: a call that failed after max_retries + 1 transient failures
C2_Witness ==
    \E p \in Procs :
        /\ call[p].pc = "failed"
        /\ call[p].raised \subseteq TransientNames
        /\ call[p].max_retries >= 1
        /\ call[p].nInv = call[p].max_retries + 1

\* C3: once the backend has raised a failure that is none of the four
\* transient kinds, the call has failed with it: no wait, no further attempt.
C3_PermanentNeverRetried ==
    \A p \in Procs :
        (call[p].raised \cap PermanentNames # {})
            => call[p].pc = "failed" /\ call[p].error \in PermanentNames

\* C4: a cache-enabled call that follows a cache-enabled call with the same
\* model and messages invokes the backend not at all and returns the value
\* the first call returned; the two calls invoke the backend once in total
\* when the first one missed the cache and its backend did not fail.
C4_SecondCallHits ==
    \A p \in Procs :
        LET f == call[p] IN
        (f.pc # "idle" /\ CacheEnabled(f.cache, f.stream) /\ prev.key = KeyOfCall(f))
            => /\ f.pc \in {"cachecheck", "done"}
               /\ f.nInv = 0
               /\ f.pc = "done" => f.result = prev.result /\ f.error = None
               /\ (prev.via = "backend" /\ prev.attempt = 0) => prev.nInv + f.nInv = 1

\* C4: the second of two such calls has returned from the cache
C4_Witness ==
    \E p \in Procs :
        /\ call[p].pc = "done"
        /\ call[p].cache /\ ~call[p].stream
        /\ prev.key = KeyOfCall(call[p])
        /\ prev.via = "backend" /\ prev.attempt = 0
        /\ call[p].result = prev.result

\* C5: no step of a call with stream=True and cache=True changes the cache;
\* the call goes from the cache check to the dispatch and returns what the
\* backend returned, also when its key is in the cache.
C5_StreamBypassesCache ==
    [][\A p \in Procs :
           (call'[p].stream /\ call'[p].cache /\ call'[p] # call[p])
               => /\ CACHE' = CACHE
                  /\ call[p].pc = "cachecheck" => call'[p].pc = "dispatch"
                  /\ call'[p].pc = "done"
                        => call'[p].via = "backend" /\ call'[p].nInv >= 1]_vars

\* C5: a streaming call with cache=True has returned while its key is stored
C5_Witness ==
    \E p \in Procs :
        /\ call[p].pc = "done"
        /\ call[p].stream /\ call[p].cache
        /\ InCache(CACHE, KeyOfCall(call[p]))

\* C6: the cache never holds more than its capacity, and a successful
\* cache-enabled call appends its entry after removing the first-inserted
\* entry, and only that one, when the cache is at capacity.
C6_FifoEviction ==
    /\ [](Len(CACHE) <= CacheCap)
    /\ [][\A p \in Procs :
              (call[p].pc = "store" /\ call'[p].pc = "done"
                  /\ call[p].cache /\ ~call[p].stream)
                  => CACHE' = (IF Len(CACHE) = CacheCap THEN Tail(CACHE) ELSE CACHE)
                                  \o <<[key |-> KeyOfCall(call[p]),
                                        val |-> call[p].response]>>]_vars

\* C6: a call has stored its entry in a full cache and evicted an entry
C6_Witness ==
    \E p \in Procs :
        /\ call[p].pc = "done"
        /\ call[p].evicted # NoKey
        /\ Len(CACHE) = CacheCap
        /\ ~InCache(CACHE, call[p].evicted)
        /\ CACHE[Len(CACHE)].key = call[p].cache_key

\* C7: a hit leaves the cache as it was; and when the oldest entry of a full
\* cache was hit by the call before, the insertion of a new key evicts it.
C7_HitKeepsEvictionOrder ==
    /\ [](\A p \in Procs :
              (call[p].pc = "done" /\ call[p].evicted # NoKey /\ prev.hitOldest)
                  => call[p].evicted = prev.key)
    /\ [][\A p \in Procs :
              (call[p].pc = "cachecheck" /\ call'[p].pc = "done") => CACHE' = CACHE]_vars

\* C7: the oldest entry was hit and the next insertion evicted it
C7_Witness ==
    \E p \in Procs :
        /\ call[p].pc = "done"
        /\ prev.hitOldest
        /\ call[p].evicted = prev.key

\* the verb has called chat_completion and the call has failed
GatewayFailed == verb.pc \in {"done", "failed"} /\ verb.llmCalls = 1 /\ call[1].pc = "failed"

\* the verb came to resolve its client and none is usable
NoBackend ==
    /\ verb.pc \in {"done", "failed"}
    /\ verb.error # "ValueError"
    /\ ~ClientUsable(verb.llm_connection)

\* C8 as stated: when the gateway call fails, or no backend is usable, the
\* verb fails with an error.
C8_GatewayFailurePropagates ==
    (GatewayFailed \/ NoBackend) => verb.pc = "failed" /\ verb.error # None

\* C8 amended: when the gateway call fails, or no backend is usable, the verb
\* returns normally, with the fixed placeholder text of that case.
C8_GatewayFailureAbsorbed ==
    /\ GatewayFailed
          => verb.pc = "done" /\ verb.error = None /\ verb.result = LlmFailedText
    /\ NoBackend
          => verb.pc = "done" /\ verb.error = None /\ verb.result = NotConfiguredText

\* C8: a verb has returned after its gateway call ran out of retries
C8_Witness ==
    /\ verb.pc = "done"
    /\ GatewayFailed
    /\ Exhausted(call[1])
    /\ call[1].nInv = DefaultMaxRetries + 1

\* C9 as stated: the error of a call whose retry budget ran out is a
\* ModelUnavailable error.
C9_TaggedModelUnavailable ==
    \A p \in Procs : Exhausted(call[p]) => call[p].error = "ModelUnavailable"

\* C9 amended: the error of a call whose retry budget ran out is the last
\* failure the backend raised, with the class the backend gave it.
C9_ReraisesLastFailure ==
    \A p \in Procs :
        Exhausted(call[p])
            => call[p].error = call[p].exc /\ call[p].error \in call[p].raised

\* C9: a budget ran out on failures of more than one class
C9_Witness ==
    \E p \in Procs :
        /\ Exhausted(call[p])
        /\ call[p].max_retries >= 1
        /\ Cardinality(call[p].raised) >= 2
        /\ call[p].error = call[p].exc

\* C10: _get_model returns a given model, else the value OPENAI_MODEL has at
\* the call, else the hard-coded fallback.
C10_ResolvedAtCallTime ==
    (gm.called /\ gm.arg \in {None, "foo"})
        => gm.result = (IF gm.arg # None THEN gm.arg
                        ELSE IF gm.env # None THEN gm.env ELSE HardCodedModel)

(***************************************************************************)
(* The cache key (C11, C12).                                               *)
(***************************************************************************)
\* the orders in which the pairs of one mapping can be written down
PairOrders(d) ==
    {s \in [1..Len(d) -> {d[i] : i \in 1..Len(d)}] :
        \A i, j \in 1..Len(d) : i # j => s[i] # s[j]}

\* the message lists that differ from messages only in the order of the keys
\* inside each message
KeyOrderVariants(messages) ==
    {ms \in [1..Len(messages) ->
                UNION {PairOrders(messages[i]) : i \in 1..Len(messages)}] :
        \A i \in 1..Len(messages) : ms[i] \in PairOrders(messages[i])}

\* two message lists are equal as lists of mappings
SameContent(m1, m2) ==
    /\ Len(m1) = Len(m2)
    /\ \A i \in 1..Len(m1) :
           {m1[i][k] : k \in 1..Len(m1[i])} = {m2[i][k] : k \in 1..Len(m2[i])}

\* C11: the cache key a call computes is the key of every message list that
\* differs from the call's only in the order of the keys inside each message,
\* under the same resolved model.
C11_KeyIgnoresKeyOrder ==
    \A p \in Procs :
        call[p].cache_key # NoKey
            => \A ms \in KeyOrderVariants(call[p].messages) :
                   CacheKey(call[p].resolved_model, ms) = call[p].cache_key

\* a call is answered from the entry that a call with the keys of its message
\* in another order stored
C11_Witness ==
    \E p \in Procs :
        /\ call[p].pc = "done" /\ call[p].via = "cache"
        /\ call[p].result.messages # call[p].messages
        /\ call[p].result.messages \in KeyOrderVariants(call[p].messages)

\* C12: a call answered from the cache gets a response that the backend gave
\* for the call's resolved model and for the call's message content; every
\* entry lies under the key of the inputs it was stored for; and no call that
\* differs from those inputs in the content or in the resolved model computes
\* that key.
C12_HitMatchesStoredInputs ==
    /\ \A p \in Procs :
           call[p].pc = "done" /\ call[p].via = "cache"
               => /\ call[p].result.model = call[p].resolved_model
                  /\ SameContent(call[p].result.messages, call[p].messages)
    /\ \A i \in 1..Len(CACHE) :
           /\ CACHE[i].key = CacheKey(CACHE[i].val.model, CACHE[i].val.messages)
           /\ \A a \in KeyArgs :
                  (get_model(a.model) # CACHE[i].val.model
                       \/ ~SameContent(a.messages, CACHE[i].val.messages))
                      => CacheKey(get_model(a.model), a.messages) # CACHE[i].key

\* a call is answered from the cache while the cache also holds an entry for
\* the same content under another model
C12_Witness ==
    \E p \in Procs :
        /\ call[p].pc = "done" /\ call[p].via = "cache"
        /\ \E i \in 1..Len(CACHE) :
               /\ CACHE[i].key # call[p].cache_key
               /\ SameContent(CACHE[i].val.messages, call[p].messages)
               /\ CACHE[i].val.model # call[p].resolved_model
(***************************************************************************)
(* The waits of the retry loop (C13).                                      *)
(***************************************************************************)
RECURSIVE Pow(_, _)
Pow(b, n) == IF n = 0 THEN 1 ELSE b * Pow(b, n - 1)

\* C13: the n-th wait of a call lasts initial_delay * backoff_factor^(n-1);
\* there is one wait after each failed attempt that is followed by another
\* attempt and none after the last attempt, be it a success or the failure
\* that is raised.
C13_BackoffSchedule ==
    \A p \in Procs :
        LET f == call[p] IN
        /\ \A n \in 1..Len(f.slept) :
               f.slept[n] = InitialDelay * Pow(BackoffFactor, n - 1)
        /\ Len(f.slept) = IF f.pc = "dispatch" THEN f.nInv ELSE Max(f.nInv - 1, 0)

\* a call failed for good after three attempts and two waits
C13_Witness ==
    \E p \in Procs :
        /\ call[p].pc = "failed" /\ call[p].nInv = 3
        /\ call[p].slept = <<InitialDelay, InitialDelay * BackoffFactor>>
(***************************************************************************)
(* Streaming (C20).                                                        *)
(***************************************************************************)
\* C20: a streaming call returns the iterator the backend created for its
\* payload, with nothing taken from it and without a further invocation; and
\* once it has returned, whatever the consumer meets on the iterator, the
\* backend is not invoked again for the call and the cache stays as it is.
C20_StreamReturnedUntouched ==
    [][\A p \in Procs :
          LET f == call[p]
              g == call'[p]
          IN /\ (f.pc = "store" /\ f.stream /\ g.pc = "done")
                    => /\ g.result = BackendValue(Payload(f), f.response.id)
                       /\ g.result.type = "iter" /\ g.result.pos = 0
                       /\ g.nInv = f.nInv /\ g.attempt = f.attempt
             /\ (f.pc = "done" /\ f.stream /\ g.pc = "done")
                    => /\ g.nInv = f.nInv /\ g.attempt = f.attempt
                       /\ g.slept = f.slept /\ CACHE' = CACHE]_vars

\* the creation of the stream was retried once, and the stream then failed
\* under its consumer after one fragment: two invocations in all
C20_Witness ==
    \E p \in Procs :
        /\ call[p].pc = "done" /\ call[p].stream
        /\ call[p].attempt = 1 /\ call[p].nInv = 2
        /\ call[p].result.pos = 1 /\ call[p].streamError # None
(***************************************************************************)
(* The verbs: degradation and response normalisation (C14 - C19).          *)
(***************************************************************************)
\* the verb has got past its retrieval step
VerbRanOn == verb.pc \in {"llm", "done", "failed"} /\ verb.error # "ValueError"

\* chat_completion has handed a response to the verb, which has finished
VerbGotResponse ==
    verb.pc \in {"done", "failed"} /\ verb.llmCalls = 1 /\ call[1].pc = "done"

\* C14: summarize_tweets with an empty list of accounts raises ValueError
\* with no call of the retrieval adapter and no call of the gateway or the
\* backend.
C14_EmptyAccountsRejectedFirst ==
    (verb.name = "summarize_tweets" /\ verb.accounts = <<>>)
        => /\ verb.pc = "failed" /\ verb.error = "ValueError"
           /\ verb.adapterCalls = 0 /\ verb.llmCalls = 0
           /\ call[1].pc = "idle" /\ call[1].nInv = 0

\* summarize_tweets was called with no accounts and an unknown backend name
C14_Witness ==
    /\ verb.name = "summarize_tweets" /\ verb.accounts = <<>>
    /\ verb.pc = "failed" /\ verb.llm_connection = "nosuch"

\* C15: when the retrieval adapter is missing or raises, the verb goes on
\* with no chunks: with a usable client chat_completion is called once, its
\* user message is the placeholder "No text found.", and the verb does not
\* raise unless the reading of the response does.
C15_AdapterFailureGivesPlaceholder ==
    (verb.adapter \in {"absent", "raises"} /\ VerbRanOn
            /\ ClientUsable(verb.llm_connection))
        => /\ verb.chunks = <<>>
           /\ verb.llmCalls = 1
           /\ call[1].messages[2] = << <<"role", "user">>, <<"content", NoTextFound>> >>
           /\ verb.pc = "failed"
                  => call[1].pc = "done" /\ NormalizeResponse(call[1].result).pc = "failed"

\* the adapter raised and the verb returned the summary of the backend
C15_Witness ==
    /\ verb.adapter = "raises" /\ verb.pc = "done"
    /\ verb.llmCalls = 1 /\ verb.result = <<"summary1">>

\* C16: with a backend name that is no module of app.connections and the
\* default client at hand, chat_completion of the default client is called
\* once and what the verb returns is made from its response.
C16_UnknownBackendFallsBack ==
    (verb.llm_connection \notin ConnectionModules \cup {None}
            /\ DefaultClient # None /\ VerbRanOn)
        => /\ verb.client = "openai_client"
           /\ verb.llmCalls = 1
           /\ call[1].pc # "idle"
           /\ VerbGotResponse
                  => /\ verb.pc = NormalizeResponse(call[1].result).pc
                     /\ verb.result = NormalizeResponse(call[1].result).result

\* the verb was called with an unknown backend name and returned the text of
\* the default backend's response
C16_Witness ==
    /\ verb.llm_connection = "nosuch" /\ verb.client = "openai_client"
    /\ verb.pc = "done" /\ verb.result = <<"plain summary">>

\* C17 as claimed: without a usable backend the verb fails with a
\* BackendUnavailable error.
C17_NoBackendRaises ==
    NoBackend => verb.pc = "failed" /\ verb.error = "BackendUnavailable"

\* C17 as the code has it: without a usable backend the verb returns the
\* text "(LLM back-end not configured - summary unavailable)" as its value,
\* and neither chat_completion nor the backend is called.
C17_NoBackendPlaceholder ==
    NoBackend
        => /\ verb.pc = "done" /\ verb.error = None
           /\ verb.result = NotConfiguredText
           /\ verb.llmCalls = 0 /\ call[1].pc = "idle" /\ call[1].nInv = 0

\* an unknown backend name, no default client, and e-mails at hand
C17_Witness ==
    /\ NoBackend /\ verb.llm_connection = "nosuch"
    /\ verb.name = "summarize_email" /\ verb.chunks # <<>>

\* the values under key k of a dict, none for any other value
ValuesAt(v, k) ==
    IF v.t = "dict"
    THEN {v.pairs[i][2] : i \in {j \in 1..Len(v.pairs) : v.pairs[j][1] = k}}
    ELSE {}

\* the content of the first choice's message, where a dict holds a non-empty
\* list of choices whose first holds a message that holds a content
PathContents(body) ==
    UNION {UNION {ValuesAt(m, "content") : m \in ValuesAt(ch.items[1], "message")} :
             ch \in {c \in ValuesAt(body, "choices") : c.t = "list" /\ c.items # <<>>}}

\* C18: a response that is a string is returned as it is, and a dict with a
\* content at choices[0].message.content gives exactly that content.
C18_NormalisationReturnsText ==
    VerbGotResponse
        => LET body == BodyOf(call[1].result.id) IN
           /\ body.t = "str" => verb.pc = "done" /\ verb.result = <<body.s>>
           /\ \A c \in PathContents(body) :
                  verb.pc = "done" /\ verb.result = AsReturned(c)

\* the response had two choices and the verb returned the content of the first
C18_Witness ==
    /\ VerbGotResponse /\ call[1].result.id = "r2"
    /\ verb.pc = "done" /\ verb.result = <<"summary2">>

\* C19: for a dict without a content at choices[0].message.content, at
\* whatever level the path breaks, the verb does not raise and returns a
\* non-empty text.
C19_NormalisationNeverRaises ==
    (VerbGotResponse /\ BodyOf(call[1].result.id).t = "dict"
            /\ PathContents(BodyOf(call[1].result.id)) = {})
        => verb.pc = "done" /\ ~IsEmptyText(verb.result)
(***************************************************************************)
(* The size of the cache under sequential calls (C30).                     *)
(***************************************************************************)
\* C30: whatever sequential calls were made, with or without cache and
\* stream, with either model, returning or raising, the cache holds at most
\* its capacity of entries, each under a key of its own.
C30_SequentialCacheBounded ==
    /\ Len(CACHE) <= CacheCap
    /\ \A i, j \in 1..Len(CACHE) : CACHE[i].key = CACHE[j].key => i = j

\* the cache is full, its newest entry is that of the call before, and the
\* call after it has raised on its second invocation of the backend
C30_Witness ==
    /\ Len(CACHE) = CacheCap
    /\ prev.via = "backend" /\ prev.key = CACHE[Len(CACHE)].key
    /\ call[1].pc = "failed" /\ call[1].nInv = 2
(***************************************************************************)
(* Two threads (C21, C22).                                                 *)
(***************************************************************************)
\* the calls of p and q are both under way with one cache key
SameKeyInFlight(p, q) ==
    /\ p # q
    /\ call[p].cache_key # NoKey /\ call[p].cache_key = call[q].cache_key
    /\ call[p].pc \notin {"idle", "done", "failed"}
    /\ call[q].pc \notin {"idle", "done", "failed"}

\* C21: a call never waits for another: whatever the other thread is doing,
\* also when its call has the same model and messages and is with the
\* backend, the next step of a call can be taken; a call that missed the
\* cache can dispatch to the backend.
C21_NoCoalescing ==
    \A p \in Procs :
        /\ call[p].pc = "cachecheck" => ENABLED CacheProbe(p)
        /\ call[p].pc = "read" => ENABLED CacheRead(p)
        /\ call[p].pc = "dispatch" => ENABLED DispatchAlone(p, ConcResponseIds)
        /\ call[p].pc = "store" => ENABLED StoreTest(p)
        /\ call[p].pc = "pick" => ENABLED StorePick(p)
        /\ call[p].pc = "pop" => ENABLED StorePop(p)
        /\ call[p].pc = "insert" => ENABLED StoreInsert(p)

\* two calls with the same model and messages have both missed the cache and
\* both got a response from the backend, neither having stored it yet
C21_Witness ==
    /\ SameKeyInFlight(1, 2)
    /\ call[1].pc = "store" /\ call[2].pc = "store"
    /\ call[1].nInv = 1 /\ call[2].nInv = 1

\* C22: under every interleaving of two threads the cache holds at most its
\* capacity of entries and no call fails because of the other.
C22_ConcurrentCacheBounded ==
    /\ Len(CACHE) <= CacheCap
    /\ \A p \in Procs : call[p].error # "KeyError"
(***************************************************************************)
(* The messages a verb sends (C23 - C26).                                  *)
(***************************************************************************)
\* the chunks 1..n, each but the first after the separator
RECURSIVE ChunksInOrder(_, _)
ChunksInOrder(chunks, n) ==
    IF n = 0 THEN <<>>
    ELSE IF n = 1 THEN chunks[1]
    ELSE ChunksInOrder(chunks, n - 1) \o <<"\n\n---\n\n">> \o chunks[n]

\* C23: a verb that calls chat_completion sends two messages, the system
\* message and then the user message, and the content of the user message is
\* the chunks in their order with the separator between them, or "No text
\* found." when there are no chunks.
C23_TwoMessagesSystemThenUser ==
    verb.llmCalls = 1
        => /\ Len(call[1].messages) = 2
           /\ call[1].messages[1][1] = <<"role", "system">>
           /\ call[1].messages[1][2][1] = "content"
           /\ call[1].messages[2][1] = <<"role", "user">>
           /\ call[1].messages[2][2] =
                  <<"content", IF verb.chunks = <<>> THEN NoTextFound
                               ELSE ChunksInOrder(verb.chunks, Len(verb.chunks))>>

\* the verb sent the chunks of three e-mails
C23_Witness ==
    /\ verb.llmCalls = 1 /\ Len(verb.chunks) = 3 /\ verb.pc = "llm"
    /\ call[1].pc = "dispatch"

\* C24: summarize_email makes one chunk of each record, in the order of the
\* records: the body where it is there and not empty, else the two lines of
\* subject and snippet, with "(no subject)" for a record without a subject.
C24_EmailChunks ==
    (verb.name = "summarize_email" /\ verb.pc # "idle")
        => /\ Len(verb.chunks) = Len(verb.records)
           /\ \A i \in 1..Len(verb.records) :
                  LET mail == verb.records[i] IN
                  IF mail.body \notin {Missing, None, ""}
                  THEN verb.chunks[i] = <<mail.body>>
                  ELSE verb.chunks[i] =
                           <<"Subject: ",
                             IF mail.subject = Missing THEN "(no subject)"
                             ELSE mail.subject,
                             "\nSnippet: ",
                             IF mail.snippet = Missing THEN "" ELSE mail.snippet>>

\* three e-mails, the third without body and subject, were summarised
C24_Witness ==
    /\ verb.name = "summarize_email" /\ verb.pc = "done" /\ verb.llmCalls = 1
    /\ Len(verb.records) = 3
    /\ verb.chunks[1] = <<"body1">>
    /\ verb.chunks[3][2] = "(no subject)"

\* C25: summarize_tweets makes one chunk of each post, in the order of the
\* posts, that begins with the author and the ISO-8601 text of the post's
\* timestamp; "(unknown time)" stands there exactly when the post has no
\* timestamp.
C25_TweetChunks ==
    (verb.name = "summarize_tweets" /\ VerbRanOn)
        => /\ Len(verb.chunks) = Len(verb.records)
           /\ \A i \in 1..Len(verb.records) :
                  LET tw == verb.records[i] IN
                  verb.chunks[i] =
                      <<"@", tw.author, " - ",
                        IF tw.timestamp \in {Missing, None} THEN "(unknown time)"
                        ELSE IsoFormat(tw.timestamp),
                        ":\n", tw.text>>

\* the section of document i with the blank line before it, or nothing
Section(docs, i) ==
    IF docs[i] = "ok"
    THEN <<"\n\n", "### ", ConfigFiles[i][2], "\n", ConfigFiles[i][1]>>
    ELSE <<>>

\* C26: the system prompt is the two sentences of the preamble, then the
\* sections of the documents that are there and readable, in the order
\* Objectives, Priorities, Outlook, Methodology, then the closing
\* instruction, with a blank line between each two; a document that is
\* missing or unreadable leaves out its own section only.
C26_SystemPromptLayout ==
    verb.llmCalls = 1
        => call[1].messages[1][2][2] =
               Preamble[1] \o <<"\n\n">> \o Preamble[2]
                   \o Section(verb.docs, 1) \o Section(verb.docs, 2)
                   \o Section(verb.docs, 3) \o Section(verb.docs, 4)
                   \o <<"\n\n">> \o Closing

\* the first document is unreadable, the second is missing, and the prompt
\* holds the sections of the other two
C26_Witness ==
    /\ verb.llmCalls = 1 /\ verb.pc = "done"
    /\ verb.docs = <<"unreadable", "missing", "ok", "ok">>
(***************************************************************************)
(* engine_scope and run_query (C29).                                       *)
(***************************************************************************)
\* C29: the engine of a scope is not disposed while the body runs and has
\* been disposed exactly once when the context has been left, by return or
\* by exception; what the body of run_query raised reaches the caller of
\* run_query only with that exit, after the dispose.
C29_EngineDisposedOnce ==
    /\ db.pc \in {"body", "exit"}
           => db.nDispose = 0 /\ db.disposed = db.created - 1 /\ db.error = None
    /\ db.pc \in {"done", "failed"}
           => db.nDispose = 1 /\ db.disposed = db.created
    /\ db.pc = "failed" => db.error \in BodyErrors /\ db.error = db.pending
    /\ db.pc = "done" => db.error = None

\* the second run_query of the run failed and its engine is disposed
C29_Witness ==
    /\ db.op = "run_query" /\ db.pc = "failed" /\ db.error = "RuntimeError"
    /\ db.created = 2 /\ db.disposed = 2
(***************************************************************************)
(* query_emails (C27, C28).                                                *)
(***************************************************************************)
\* C27: query_emails with a naive since raises ValueError without a call of
\* _get_imap_client and without a command to the server.
C27_NaiveSinceRejectedFirst ==
    (imap.pc # "idle" /\ ~imap.aware)
        => /\ imap.pc = "failed" /\ imap.error = "ValueError"
           /\ imap.clientCalls = 0 /\ imap.commands = <<>>

\* a call with a naive since and a cap of two has raised
C27_Witness ==
    /\ ~imap.aware /\ imap.pc = "failed" /\ imap.max_results = 2

Min(a, b) == IF a < b THEN a ELSE b

\* C28: the FETCH commands go through the UIDs from the newest downwards;
\* the list never has more than max_results messages; no FETCH is sent once
\* it has max_results; and when no FETCH failed, the call returns the
\* min(M, max_results) newest of the M UIDs in that order.
C28_CapAndNewestFirst ==
    /\ [](/\ Len(imap.messages) <= imap.max_results
          /\ \A i \in 1..Len(imap.fetches) :
                 imap.fetches[i] = imap.uids[Len(imap.uids) - i + 1]
          /\ imap.failed = 0 => imap.messages = imap.fetches
          /\ (imap.pc = "done" /\ imap.status = "OK" /\ imap.failed = 0)
                 => /\ imap.result = imap.messages
                    /\ Len(imap.result) = Min(Len(imap.uids), imap.max_results))
    /\ [][Len(imap.messages) >= imap.max_results
              => Len(imap'.fetches) <= Len(imap.fetches)]_vars

\* of three UIDs the two newest were fetched and returned under a cap of two
C28_Witness ==
    /\ imap.pc = "done" /\ imap.max_results = 2 /\ Len(imap.uids) = 3
    /\ imap.result = <<3, 2>> /\ imap.failed = 0
    /\ imap.commands = <<"SELECT", "SEARCH", "FETCH", "FETCH", "LOGOUT">>

(***************************************************************************)
(* The cache under failing and cache-less calls (C31, C32).                *)
(***************************************************************************)
\* C31: the only step of a call that changes the cache is the store of a
\* cache-enabled call directly after its dispatch returned; the step by which
\* a call fails leaves the cache as it is, and a failed call has stored and
\* evicted nothing.
C31_FailureLeavesCache ==
    /\ [](\A p \in Procs :
              call[p].pc = "failed"
                  => call[p].evicted = NoKey /\ call[p].via = "none"
                         /\ call[p].response = NoResp)
    /\ [][/\ \A p \in Procs :
                 (call'[p].pc = "failed" /\ call[p].pc # "failed") => CACHE' = CACHE
          /\ CACHE' # CACHE
                => \E p \in Procs :
                       /\ call[p].pc = "store" /\ call'[p].pc = "done"
                       /\ call[p].cache /\ ~call[p].stream
                       /\ call[p].response # NoResp
                       /\ call[p].nInv = call[p].attempt + 1]_vars

\* C31: a cache-enabled call with a key that is not stored has failed on a
\* full cache, once out of retries and once on a failure that is not retried
C31_Witness ==
    \E p \in Procs :
        /\ call[p].pc = "failed"
        /\ call[p].cache /\ ~call[p].stream
        /\ Len(CACHE) = CacheCap
        /\ ~InCache(CACHE, KeyOfCall(call[p]))
        /\ \/ Exhausted(call[p]) /\ call[p].attempt = 2
           \/ call[p].error \in PermanentNames

\* C32: no step of a call with cache=False changes the cache; the call goes
\* from the cache check to the dispatch, also when its key is stored, and
\* returns only what the backend returned to it.
C32_CacheOffBypasses ==
    [][\A p \in Procs :
           (~call'[p].cache /\ call'[p] # call[p])
               => /\ CACHE' = CACHE
                  /\ call[p].pc = "cachecheck" => call'[p].pc = "dispatch"
                  /\ call'[p].pc = "done"
                        => /\ call'[p].via = "backend" /\ call'[p].nInv >= 1
                           /\ call'[p].result = call[p].response]_vars

\* C32: a call with cache=False and no stream has returned from the backend
\* while an entry for its model and messages is stored
C32_Witness ==
    \E p \in Procs :
        /\ call[p].pc = "done"
        /\ ~call[p].cache /\ ~call[p].stream
        /\ InCache(CACHE, KeyOfCall(call[p]))
        /\ call[p].via = "backend"

(***************************************************************************)
(* The life of an entry (C33) and the options of a call (C34).             *)
(***************************************************************************)
\* the entries of the cache as a set
Entries(c) == {c[i] : i \in 1..Len(c)}

\* C33: a cache-enabled call whose key is stored is answered with the stored
\* value and no backend call; the cache changes only by the insertion of a
\* key that is not stored, behind the entries that are kept in their order;
\* and the entry that goes is the first-inserted one of a cache that holds
\* CacheCap entries, that is, one after which CacheCap - 1 keys were inserted
\* and the CacheCap-th is being inserted.
C33_EntryLivesUntilEvicted ==
    /\ [](\A i, j \in 1..Len(CACHE) : CACHE[i].key = CACHE[j].key => i = j)
    /\ [][\A p \in Procs :
              (call[p].pc = "cachecheck" /\ call[p].cache /\ ~call[p].stream
                  /\ InCache(CACHE, KeyOfCall(call[p])) /\ call'[p] # call[p])
                  => /\ call'[p].pc = "done" /\ call'[p].nInv = 0
                     /\ call'[p].result = Lookup(CACHE, KeyOfCall(call[p]))]_vars
    /\ [][CACHE' # CACHE
              => \E e \in Entries(CACHE') :
                     /\ ~InCache(CACHE, e.key)
                     /\ \/ CACHE' = Append(CACHE, e)
                        \/ /\ Len(CACHE) = CacheCap
                           /\ CACHE' = Append(Tail(CACHE), e)]_vars

\* C33: the first-inserted entry of a full cache, after which CacheCap - 1
\* keys were inserted, is hit
C33_Witness ==
    \E p \in Procs :
        /\ call[p].pc = "done"
        /\ call[p].via = "cache"
        /\ call[p].hitOldest
        /\ Len(CACHE) = CacheCap
        /\ CACHE[1].key = KeyOfCall(call[p])
        /\ call[p].result = CACHE[1].val

\* C34: a cache-enabled call whose model and messages are those of a stored
\* entry returns the stored response with no backend call, whatever its
\* options are and whatever the options of the call the response answered.
C34_KeyIgnoresOptions ==
    /\ [][\A p \in Procs :
              (call[p].pc = "cachecheck" /\ call[p].cache /\ ~call[p].stream
                  /\ call'[p] # call[p]
                  /\ \E i \in 1..Len(CACHE) :
                         /\ CACHE[i].val.model = call[p].resolved_model
                         /\ SameContent(CACHE[i].val.messages, call[p].messages))
                  => call'[p].pc = "done" /\ call'[p].via = "cache"]_vars
    /\ [](\A p \in Procs :
              (call[p].pc = "done" /\ call[p].via = "cache")
                  => /\ call[p].nInv = 0
                     /\ call[p].result.model = call[p].resolved_model
                     /\ SameContent(call[p].result.messages, call[p].messages)
                     /\ \E i \in 1..Len(CACHE) : CACHE[i].val = call[p].result)

\* C34: a call was answered from the cache with the response to a call of
\* other options
C34_Witness ==
    \E p \in Procs :
        /\ call[p].pc = "done"
        /\ call[p].via = "cache"
        /\ call[p].nInv = 0
        /\ call[p].options = Creative
        /\ call[p].result.options = NoOptions

(***************************************************************************)
(* Termination of a call (C35).                                            *)
(***************************************************************************)
\* the call is under way
Running(p) == call[p].pc \in {"cachecheck", "dispatch", "backoff", "store"}

\* C35: a call never makes more than max(max_retries, 0) + 1 backend
\* invocations; with max_retries <= 0, a call whose backend raised a transient
\* failure has failed with it after one invocation and no wait; and a call
\* that is under way returns or raises.
C35_Terminates ==
    /\ [](\A p \in Procs :
              LET f == call[p] IN
              /\ f.nInv <= Max(f.max_retries, 0) + 1
              /\ (f.max_retries <= 0 /\ f.raised \cap TransientNames # {})
                    => /\ f.pc = "failed" /\ f.error \in TransientNames
                       /\ f.nInv = 1 /\ f.slept = <<>>)
    /\ \A p \in Procs : Running(p) ~> Finished(p)

\* C35: a call has raised after max_retries + 1 invocations that all failed,
\* and waited between them
C35_Witness ==
    \E p \in Procs :
        /\ call[p].pc = "failed"
        /\ call[p].max_retries = MaxRetries
        /\ call[p].nInv = MaxRetries + 1
        /\ Len(call[p].slept) = MaxRetries

(***************************************************************************)
(* The state machine of a non-streaming call (C36).                        *)
(***************************************************************************)
\* C36: every step of a non-streaming call is a transition of the state
\* machine: from the cache check to Done on a hit, with no dispatch, else to
\* the dispatch; from the dispatch to the store on success, to the backoff
\* after a transient failure with attempts remaining, else to Failed; from
\* the backoff to the dispatch; from the store to Done.  The cache changes
\* only in the store step of a cache-enabled call, and a call that has ended
\* has either a result or an error.
C36_StateMachine ==
    /\ [](\A p \in Procs :
              LET f == call[p] IN
              ~f.stream =>
                  /\ f.pc = "done" => f.result # NoResp /\ f.error = None
                  /\ f.pc = "failed" => f.result = NoResp /\ f.error # None
                  /\ f.via = "cache" => f.pc = "done" /\ f.nInv = 0)
    /\ [][\A p \in Procs :
              LET f == call[p]
                  g == call'[p]
              IN (~g.stream /\ g # f) =>
                     /\ g.pc = "cachecheck" => f.pc \in {"idle", "done", "failed"}
                     /\ f.pc = "cachecheck" =>
                            \/ g.pc = "done" /\ g.via = "cache" /\ f.cache
                            \/ g.pc = "dispatch"
                     /\ f.pc = "dispatch" =>
                            \/ g.pc = "store" /\ g.nInv = f.nInv + 1
                            \/ g.pc \in {"backoff", "failed"}
                     /\ g.pc = "backoff" =>
                            /\ f.pc = "dispatch"
                            /\ g.exc \in TransientNames
                            /\ g.attempt <= g.max_retries
                     /\ f.pc = "backoff" => g.pc = "dispatch"
                     /\ g.pc = "dispatch" => f.pc \in {"cachecheck", "backoff"}
                     /\ f.pc = "store" => g.pc = "done" /\ g.via = "backend"
                     /\ g.pc = "done" => f.pc \in {"cachecheck", "store"}
                     /\ g.pc = "failed" => f.pc = "dispatch"]_vars
    /\ [][CACHE' # CACHE
              => \E p \in Procs :
                     /\ call[p].pc = "store" /\ call'[p].pc = "done"
                     /\ call[p].cache /\ ~call[p].stream]_vars

(***************************************************************************)
(* The log (C37).                                                          *)
(***************************************************************************)
\* how many records of a log have the severity
RECURSIVE CountSeverity(_, _)
CountSeverity(log, severity) ==
    IF log = <<>> THEN 0
    ELSE (IF log[1].severity = severity THEN 1 ELSE 0)
             + CountSeverity(Tail(log), severity)

\* the records of a log that report the event
EventRecords(log, event) == SelectSeq(log, LAMBDA r : r.event = event)

\* the verb came to resolve a connection name that is no module
FellBack ==
    /\ verb.pc \in {"llm", "done", "failed"}
    /\ verb.error # "ValueError"
    /\ verb.llm_connection # None
    /\ verb.llm_connection \notin ConnectionModules

\* the number of warnings of a call is the number of its waits, counting the
\* wait it is about to begin; and a call that the backend answered at its
\* first invocation has logged nothing
RetriesLogged(f) ==
    /\ CountSeverity(f.log, "WARNING")
           = Len(f.slept) + (IF f.pc = "backoff" THEN 1 ELSE 0)
    /\ f.pc = "backoff" => f.log[Len(f.log)].severity = "WARNING"
    /\ (f.pc \in {"store", "done"} /\ f.attempt = 0) => f.log = <<>>

\* C37 as stated: each retry logs one warning before its wait, a fallback to
\* the default backend logs a warning, a call that failed has logged exactly
\* one error, and a call answered at its first attempt has logged nothing.
C37_LogsMirrorEvents ==
    /\ \A p \in Procs : RetriesLogged(call[p])
    /\ \A p \in Procs :
           call[p].pc = "failed" => CountSeverity(call[p].log, "ERROR") = 1
    /\ FellBack => \E i \in 1..Len(verb.log) :
                       verb.log[i] = LogRecord("fallback", "WARNING")

\* C37 amended: each retry logs one warning before its wait and a call
\* answered at its first attempt logs nothing; a call that gave up on an
\* exhausted budget has logged exactly one error, as its last record, and a
\* call that failed on an exception _retry does not catch has logged none;
\* the verb logs one error for a gateway call that failed; and a fallback to
\* the default backend is logged once, as an error.
C37_LogsAsWritten ==
    /\ \A p \in Procs : RetriesLogged(call[p])
    /\ \A p \in Procs :
           LET f == call[p] IN
           /\ CountSeverity(f.log, "ERROR") = (IF Exhausted(f) THEN 1 ELSE 0)
           /\ Exhausted(f) => f.log[Len(f.log)] = LogRecord("giveup", "ERROR")
    /\ GatewayFailed => EventRecords(verb.log, "llm_failed") = LlmFailedLog
    /\ EventRecords(verb.log, "fallback")
           = (IF FellBack THEN <<LogRecord("fallback", "ERROR")>> ELSE <<>>)

\* C37: a verb given an unknown connection name fell back to the default
\* client, whose call gave up after its retries
C37_Witness ==
    /\ verb.pc = "done"
    /\ FellBack
    /\ GatewayFailed
    /\ Exhausted(call[1])
    /\ Len(call[1].slept) = DefaultMaxRetries
    /\ Len(call[1].log) = DefaultMaxRetries + 1

(***************************************************************************)
(* The store under threads (C38).                                          *)
(***************************************************************************)
\* C38: a cache-enabled call to which the backend has returned a response
\* does not fail, and when it has returned, it has returned that response.
C38_StoreNeverRaises ==
    \A p \in Procs :
        LET f == call[p] IN
        (f.cache /\ ~f.stream /\ f.response # NoResp)
            => /\ f.pc # "failed"
               /\ f.pc = "done" => f.result = f.response /\ f.error = None

(***************************************************************************)
(* query_tweets (C39).                                                     *)
(***************************************************************************)
\* the call got a client and went into its loop over the accounts
TweetsFetched ==
    /\ twitter.pc \in {"done", "failed"}
    /\ twitter.error # "ValueError"
    /\ twitter.feeds # <<>>

\* C39: a query_tweets call that fetched posts has returned, whatever the
\* posts are, with no more than max_results posts, each dated post ahead of
\* every post dated earlier.
C39_TweetsCappedAndSorted ==
    TweetsFetched
        => /\ twitter.pc = "done"
           /\ Len(twitter.result) <= twitter.max_results
           /\ \A i, j \in 1..Len(twitter.result) :
                  (i < j /\ twitter.result[i].timestamp # None
                         /\ twitter.result[j].timestamp # None)
                      => Seconds(twitter.result[i].timestamp)
                             >= Seconds(twitter.result[j].timestamp)

(***************************************************************************)
(* The logout of query_emails (C40).                                       *)
(***************************************************************************)
\* how often a command was sent
CountCommand(commands, name) == Len(SelectSeq(commands, LAMBDA c : c = name))

\* C40: a query_emails call that got a client and has returned or raised has
\* sent LOGOUT once, as its last command, whether or not the logout itself
\* raised; while it runs it has not logged out; a call that got no client has
\* sent nothing; and a logout that raises does not keep the call from
\* returning its messages.
C40_LoggedOutOnce ==
    /\ (imap.client = "ok" /\ imap.pc \in {"done", "failed"})
          => /\ CountCommand(imap.commands, "LOGOUT") = 1
             /\ imap.commands[Len(imap.commands)] = "LOGOUT"
    /\ (imap.client = "ok" /\ imap.pc \in {"search", "loop"})
          => CountCommand(imap.commands, "LOGOUT") = 0
    /\ imap.client = "none" => imap.commands = <<>>
    /\ (imap.logoutRaised /\ imap.pc = "done")
          => imap.error = None /\ imap.result = imap.messages

\* C40: a call has raised what a FETCH raised, after a message was fetched and
\* one was passed over, and its logout raised too
C40_Witness ==
    /\ imap.pc = "failed"
    /\ imap.error = "IMAP4.abort"
    /\ imap.logoutRaised
    /\ Len(imap.messages) = 1
    /\ imap.commands = <<"SELECT", "SEARCH", "FETCH", "FETCH", "FETCH", "LOGOUT">>

====
